---- MODULE Spec2Model ----
(***************************************************************************)
(* A model of the aibot content pipeline (app/tasks.py,                    *)
(* app/telegram/publisher.py, app/api/endpoints.py, app/models.py).        *)
(*                                                                         *)
(* The backing store is PostgreSQL read through SQLAlchemy sessions        *)
(* (READ COMMITTED, autoflush off, expire_on_commit off): every SELECT     *)
(* sees the rows committed at that moment, an object loaded once in a      *)
(* session keeps the column values of its first load, and a commit writes  *)
(* only the columns whose value differs from the loaded one, by primary    *)
(* key, whatever the row holds by then.                                    *)
(*                                                                         *)
(* SpecIngest is the Ingestion Recorder (_save_news_items) under           *)
(* concurrent ingest-source runs.  Spec is the pipeline of sweeps,         *)
(* generation and publish tasks and the manual entry points.               *)
(***************************************************************************)
EXTENDS Integers, Sequences, FiniteSets, Bags, TLC

VARIABLES
    news,      \* table news_items: the set of stored rows
    ing,       \* the ingest runs: slot -> run record
    clock,     \* the wall clock read by datetime.now(timezone.utc)
    posts,     \* table posts: the sequence of rows, posts.id being the index
    queue,     \* the Celery queue: a bag of task messages
    runs,      \* the task and request executions under way: a bag of records
    sent,      \* per post, the messages client.send_message delivered for it
    budget,    \* the triggers still to come (beat ticks, API requests)
    last,      \* what the publish attempt that ended last returned
    sources,   \* table sources: the set of stored rows
    flt,       \* the call of should_generate_post that ended last
    gen,       \* how the generation that ended in the last step ended
    del,       \* the transaction of the delete_source request under way
    stagger,   \* the time.sleep of the sweep that dispatched in the last step
    configured,     \* settings.TELEGRAM_API_ID and TELEGRAM_API_HASH are set
    auth_sessions,  \* _auth_sessions: phone -> phone_code_hash
    authorized,     \* the Telegram session file holds an authorized user
    auth_calls,     \* the calls of authorize_telegram: slot -> call record
    signins         \* per code request sent, the sign_in calls made with it

ingVars == <<news, ing, clock>>
pipeVars == <<posts, queue, runs, sent, budget, last, gen, stagger>>
authVars == <<configured, auth_sessions, authorized, auth_calls, signins>>
auxVars == <<sources, flt, del, authVars>>
vars ==
    <<news, ing, clock, posts, queue, runs, sent, budget, last, sources, flt, gen,
      del, stagger, configured, auth_sessions, authorized, auth_calls, signins>>

-----------------------------------------------------------------------------
(* Values *)

\* Python None, SQL NULL
None == "None"
\* a key that the dict does not hold
Missing == "Missing"

\* the number of concurrent or successive ingest-source runs
MaxIngestRuns == 2
\* the number of raw items the fetches of all runs return
MaxItems == 3

IngestSlots == 1..MaxIngestRuns

\* sources.id of the sources whose batches are recorded
SourceIds == {1, 2}

\* SourceType
SITE == "site"
TELEGRAM == "tg"

\* Source(id=..., type=..., enabled=...)
SourceRow(sid, type, enabled) == [id |-> sid, type |-> type, enabled |-> enabled]

\* the sources as configured: a site and a Telegram channel, both enabled
AllEnabled == {SourceRow(1, SITE, TRUE), SourceRow(2, TELEGRAM, TRUE)}

\* Source.name, written into item['source'] by the caller of _save_news_items
SourceName(sid) == IF sid = 1 THEN "site-1" ELSE "site-2"

\* datetimes: aware (tzinfo UTC), naive (no tzinfo), and None or an absent key
Aware(t) == [t |-> t, tz |-> "utc"]
Naive(t) == [t |-> t, tz |-> "naive"]
NoTime == [t |-> 0, tz |-> "none"]

RawItem(title, url, summary, raw_text, published_at) ==
    [title |-> title, url |-> url, summary |-> summary,
     raw_text |-> raw_text, published_at |-> published_at]

\* The raw items a fetch may return.  The first is Scenario A's item; the
\* second carries the same url with every other field changed; the third has
\* no url; the fourth has no 'title' key; the fifth has a title of None; the
\* sixth has neither a url nor a title.
RawItems ==
    { RawItem("T1", "http://x/1", "s1", Missing, Aware(1)),
      RawItem("T2", "http://x/1", "s2", "r2", NoTime),
      RawItem("T1", None, "s1", Missing, Naive(2)),
      RawItem(Missing, "http://x/2", "s1", Missing, Aware(1)),
      RawItem(None, "http://x/2", "s1", Missing, Aware(1)),
      RawItem(None, Missing, "s1", Missing, NoTime) }

-----------------------------------------------------------------------------
(* Python dict access *)

\* item.get(key): None when the key is absent
Get(v) == IF v = Missing THEN None ELSE v

\* item.get(key, ''): '' when the key is absent
GetOr(v, default) == IF v = Missing THEN default ELSE v

\* the truth value of an optional string
Truthy(v) == v # None /\ v # Missing /\ v # ""

\* hashlib.md5(s.encode()).hexdigest(): deterministic, and one digest per
\* string over the strings of the model
Md5(s) == <<"md5", s>>

\* item.get('url') or item.get('title', '')
CanonicalKey(item) ==
    IF Truthy(item.url) THEN item.url ELSE GetOr(item.title, "")

\* None.encode() raises AttributeError
KeyRaises(item) == CanonicalKey(item) = None

CanonicalId(item) == Md5(CanonicalKey(item))

\* published_at of the row: now when absent or falsy, tzinfo set to UTC when naive
NormalizePublishedAt(p, now) ==
    IF p = NoTime THEN Aware(now)
    ELSE IF p.tz = "naive" THEN Aware(p.t)
    ELSE p

\* NewsItem(id=..., title=item['title'], ...)
NewsRow(item, sid, now) ==
    [id |-> CanonicalId(item),
     title |-> item.title,
     url |-> Get(item.url),
     summary |-> GetOr(item.summary, ""),
     source |-> SourceName(sid),
     source_id |-> sid,
     published_at |-> NormalizePublishedAt(item.published_at, now),
     raw_text |-> Get(item.raw_text)]

\* item['title'] raises KeyError
ConstructRaises(item) == item.title = Missing

\* published_at is falsy: datetime.now is read
ReadsClock(item) == item.published_at = NoTime

-----------------------------------------------------------------------------
(* Table news_items *)

StoredIds(store) == {n.id : n \in store}

\* columns declared nullable=False
NotNullOk(row) == row.title # None /\ row.summary # None

\* the primary key: no two rows of the flush, and no row of the flush and a
\* stored row, share an id
PrimaryKeyOk(rows, store) ==
    /\ \A i, j \in 1..Len(rows) : rows[i].id = rows[j].id => i = j
    /\ \A i \in 1..Len(rows) : rows[i].id \notin StoredIds(store)

\* db.commit(): the INSERTs of the session's pending rows all succeed or the
\* transaction is rolled back and the commit raises
CommitOk(rows, store) ==
    /\ \A i \in 1..Len(rows) : NotNullOk(rows[i])
    /\ PrimaryKeyOk(rows, store)

Range(s) == {s[i] : i \in 1..Len(s)}

\* source_id NULL (no sources.id is 0)
NoSource == 0

\* sources.id of the stored sources
StoredSources == {src.id : src \in sources}

\* ForeignKey("sources.id"): a row names a stored source
ForeignKeyOk(rows) ==
    \A i \in 1..Len(rows) : rows[i].source_id \in StoredSources

\* The delete_source transaction: at pc "posts" the source is loaded, at
\* "news" the posts are deleted, at "load" the news items are deleted too, at
\* "flush" the collection Source.news_items is loaded.  posts and news are the
\* rows the transaction deleted and has not committed; they stay visible to
\* the other sessions (READ COMMITTED) and are locked.
NoDelete ==
    [pc |-> "idle", source_id |-> 0, posts |-> {}, news |-> {}, loaded |-> {}]

\* a row the transaction deleted: a writer of it waits for the transaction
LockedNews == IF del.pc \in {"load", "flush"} THEN del.news ELSE {}
LockedPosts == IF del.pc \in {"news", "load", "flush"} THEN del.posts ELSE {}

-----------------------------------------------------------------------------
(* _save_news_items *)

\* batch holds the items of news_items the loop has gone through; the list
\* itself is an input and is revealed one item at a time.  ret is <<n>> once
\* the function has returned n, and stays <<>> when it raised.
IdleRun ==
    [st |-> "idle", source_id |-> 0, batch |-> <<>>, pending |-> <<>>,
     saved_count |-> 0, ret |-> <<>>, pre |-> {}, after |-> {}]

Finished(run) == run.st \in {"done", "failed"}

RECURSIVE SumLen(_, _)
SumLen(rs, slots) ==
    IF slots = {} THEN 0
    ELSE LET r == CHOOSE x \in slots : TRUE
         IN  Len(rs[r].batch) + SumLen(rs, slots \ {r})

Fetched == SumLen(ing, IngestSlots)

\* A run begins: the session is opened, saved_count = 0.  pre and after
\* record the ids stored and the runs finished at that moment.  Slots are
\* taken in order and the sources are interchangeable, so the r-th run is for
\* one of the first r sources.
IngestStart(r, sid) ==
    /\ ing[r].st = "idle"
    /\ \A q \in IngestSlots : q < r => ing[q].st # "idle"
    /\ sid <= r
    /\ ing' = [ing EXCEPT ![r] =
                 [st |-> "loop", source_id |-> sid, batch |-> <<>>,
                  pending |-> <<>>, saved_count |-> 0, ret |-> <<>>,
                  pre |-> StoredIds(news),
                  after |-> {q \in IngestSlots : Finished(ing[q])}]]
    /\ UNCHANGED <<news, clock>>
    /\ UNCHANGED <<pipeVars, auxVars>>

\* (mutant) an existing item is counted as saved
SkipExistingCounted(run, item) ==
    [run EXCEPT !.batch = Append(run.batch, item),
                !.saved_count = run.saved_count + 1]

\* the SELECT by id finds a row: continue
SkipExisting(run, item) ==
    [run EXCEPT !.batch = Append(run.batch, item)]

\* db.add(news_item); saved_count += 1
AddPending(run, item, now) ==
    [run EXCEPT !.batch = Append(run.batch, item),
                !.pending = Append(run.pending, NewsRow(item, run.source_id, now)),
                !.saved_count = run.saved_count + 1]

\* except Exception: logged, continue
SkipFailed(run, item) ==
    [run EXCEPT !.batch = Append(run.batch, item)]

\* the turn for an item whose id no SELECT finds, or whose key raises
IngestNewItem(r, item) ==
    LET run == ing[r]
    IN  \/ /\ KeyRaises(item)
           /\ ing' = [ing EXCEPT ![r] = SkipFailed(run, item)]
           /\ UNCHANGED clock
        \/ /\ ~KeyRaises(item)
           /\ ConstructRaises(item)
           /\ ing' = [ing EXCEPT ![r] = SkipFailed(run, item)]
           /\ clock' = IF ReadsClock(item) THEN clock + 1 ELSE clock
        \/ /\ ~KeyRaises(item)
           /\ ~ConstructRaises(item)
           /\ ing' = [ing EXCEPT ![r] = AddPending(run, item, clock)]
           /\ clock' = IF ReadsClock(item) THEN clock + 1 ELSE clock

IdStored(item) == ~KeyRaises(item) /\ CanonicalId(item) \in StoredIds(news)

\* (mutant) an existing row is refreshed from the later fetch
IngestItemUpsert(r, item) ==
    LET run == ing[r]
    IN  /\ run.st = "loop"
        /\ Fetched < MaxItems
        /\ \/ /\ IdStored(item)
              /\ ing' = [ing EXCEPT ![r] = SkipExisting(run, item)]
              /\ news' = {IF n.id = CanonicalId(item) /\ ~ConstructRaises(item)
                           THEN NewsRow(item, run.source_id, clock) ELSE n : n \in news}
              /\ UNCHANGED clock
           \/ /\ ~IdStored(item)
              /\ IngestNewItem(r, item)
              /\ UNCHANGED news
        /\ UNCHANGED <<pipeVars, auxVars>>

\* One turn of the loop over the batch: the id, the SELECT by id, then either
\* continue or db.add and saved_count += 1.  An exception ends the turn.
IngestItem(r, item) ==
    LET run == ing[r]
    IN  /\ run.st = "loop"
        /\ Fetched < MaxItems
        /\ \/ /\ IdStored(item)
              /\ ing' = [ing EXCEPT ![r] = SkipExisting(run, item)]
              /\ UNCHANGED clock
           \/ /\ ~IdStored(item)
              /\ IngestNewItem(r, item)
        /\ UNCHANGED news
        /\ UNCHANGED <<pipeVars, auxVars>>

\* db.commit() after the loop, outside the try: on success the pending rows
\* are stored and saved_count is returned; on failure the exception leaves
\* _save_news_items and nothing of the batch is stored.  An INSERT of an id
\* that a transaction under way deleted waits for that transaction.
IngestCommit(r) ==
    LET run == ing[r]
    IN  /\ run.st = "loop"
        /\ Len(run.batch) >= 1
        /\ \A i \in 1..Len(run.pending) : run.pending[i].id \notin LockedNews
        /\ \/ /\ CommitOk(run.pending, news) /\ ForeignKeyOk(run.pending)
              /\ news' = news \cup Range(run.pending)
              /\ ing' = [ing EXCEPT ![r].st = "done", ![r].ret = <<run.saved_count>>]
           \/ /\ ~(CommitOk(run.pending, news) /\ ForeignKeyOk(run.pending))
              /\ news' = news
              /\ ing' = [ing EXCEPT ![r].st = "failed"]
        /\ UNCHANGED clock
        /\ UNCHANGED <<pipeVars, auxVars>>

-----------------------------------------------------------------------------
(* The authorization handshake: app/telegram/auth.py *)

\* the calls of authorize_telegram under way at once
MaxCalls == 2
\* the code requests Telegram accepts
MaxCodes == 2

CallSlots == 1..MaxCalls

\* _auth_sessions.get(phone) of a phone the dict does not hold
NoHash == 0

\* the phone numbers posted, as character sequences
Phones == {<<"+7">>, <<" ", "+7">>, <<"+9">>}

\* the codes posted: none, the empty string, a code
Codes == {None, "", "12345"}

\* str.strip(): the leading and the trailing whitespace removed
RECURSIVE LStrip(_)
LStrip(s) == IF s # <<>> /\ Head(s) = " " THEN LStrip(Tail(s)) ELSE s

RECURSIVE RStrip(_)
RStrip(s) == IF s # <<>> /\ s[Len(s)] = " " THEN RStrip(SubSeq(s, 1, Len(s) - 1)) ELSE s

Strip(s) == RStrip(LStrip(s))

\* _auth_sessions.get(phone)
HashOf(d, phone) == IF phone \in DOMAIN d THEN d[phone] ELSE NoHash

\* _auth_sessions[phone] = phone_code_hash
Put(d, phone, h) == [k \in DOMAIN d \cup {phone} |-> IF k = phone THEN h ELSE d[k]]

\* _auth_sessions.pop(phone, None)
Pop(d, phone) == [k \in DOMAIN d \ {phone} |-> d[k]]

\* no call under way in the slot
IdleCall == [pc |-> "idle", phone |-> <<>>, code |-> None, hash |-> NoHash, ret |-> <<>>]

\* the process as started: credentials set, nobody signed in, the dict empty
AuthAtRest ==
    /\ configured = TRUE
    /\ auth_sessions = <<>>
    /\ authorized = FALSE
    /\ auth_calls = [c \in CallSlots |-> IdleCall]
    /\ signins = <<>>

\* the pipeline at rest: no post, no task, no execution
PipeAtRest ==
    /\ posts = <<>>
    /\ queue = EmptyBag
    /\ runs = EmptyBag
    /\ sent = <<>>
    /\ last = <<>>
    /\ gen = <<>>
    /\ stagger = <<>>
    /\ flt = <<>>
    /\ del = NoDelete

InitIngest ==
    /\ news = {}
    /\ ing = [r \in IngestSlots |-> IdleRun]
    /\ clock = 10
    /\ PipeAtRest
    /\ AuthAtRest
    /\ budget = 0
    /\ sources = AllEnabled

NextIngest ==
    \/ \E r \in IngestSlots, sid \in SourceIds : IngestStart(r, sid)
    \/ \E r \in IngestSlots, item \in RawItems : IngestItem(r, item)
    \/ \E r \in IngestSlots : IngestCommit(r)

SpecIngest == InitIngest /\ [][NextIngest]_vars

-----------------------------------------------------------------------------
(* Table posts, the queue and the executions *)

\* PostStatus
PS_NEW == "new"
PS_GENERATED == "generated"
PS_PUBLISHED == "published"
PS_FAILED == "failed"
PostStatuses == {PS_NEW, PS_GENERATED, PS_PUBLISHED, PS_FAILED}

\* the rows table posts may come to hold
MaxPosts == 3
\* the executions (worker processes and API requests) under way at once
MaxRuns == 2
\* the triggers of a run: beat ticks of process_news_items and of
\* publish_generated_posts, requests to POST /posts/, /generate and /publish
MaxTriggers == 2

\* what the text generator may answer, and what a manual post may hold
Texts == {"text-a", "text-b"}
ManualTexts == {"", "text-m"}

PostRow(news_id, text, status) ==
    [news_id |-> news_id, generated_text |-> text, status |-> status,
     published_at |-> NoTime]

\* the place of a deleted row: its id is not given again
NoPost ==
    [news_id |-> None, generated_text |-> None, status |-> "deleted",
     published_at |-> NoTime]

PostIds == 1..Len(posts)

\* select(Post).filter(Post.news_id == nid, Post.status.in_(statuses))
PostsOf(nid, statuses) ==
    {p \in PostIds : posts[p].news_id = nid /\ posts[p].status \in statuses}

\* Result.scalar_one_or_none(): raises MultipleResultsFound on two rows or more
ScalarRaises(rows) == Cardinality(rows) > 1

\* ... and otherwise the row, or None (0: no posts.id is 0)
ScalarOneOrNone(rows) == IF rows = {} THEN 0 ELSE CHOOSE p \in rows : TRUE

GenerateTask(nid) == [name |-> "generate_post_for_news", arg |-> nid]
PublishTask(pid) == [name |-> "publish_post", arg |-> pid]

\* task.delay(arg)
Delay(q, task) == q (+) SetToBag({task})

Running == BagToSet(runs)
Begin(rs, e) == rs (+) SetToBag({e})
End(rs, e) == rs (-) SetToBag({e})
Step(rs, e, f) == (rs (-) SetToBag({e})) (+) SetToBag({f})
CanBegin == BagCardinality(runs) < MaxRuns

\* db.add(post); db.commit(): the next id of the sequence
Insert(ps, row) == Append(ps, row)

-----------------------------------------------------------------------------
(* Filter Engine, as the sweep calls it: check_keywords=False and the other
   defaults, which leave the duplicate check alone *)

\* str.lower() over the titles of the model
Lower(t) ==
    CASE t = "T1" -> "t1"
      [] t = "T2" -> "t2"
      [] OTHER -> t

\* (mutant) a unit is a duplicate of the units published before it alone
IsDuplicateOfEarlier(unit, store) ==
    LET existing_news == {n \in store : /\ n.id # unit.id
                                        /\ n.published_at.t < unit.published_at.t}
    IN  \/ /\ Truthy(unit.url)
           /\ \E existing \in existing_news :
                 Truthy(existing.url) /\ Md5(existing.url) = Md5(unit.url)
        \/ \E existing \in existing_news : Lower(unit.title) = Lower(existing.title)

\* (mutant) the SELECT leaves the unit itself among the stored ones
IsDuplicateAmongAll(unit, store) ==
    \/ /\ Truthy(unit.url)
       /\ \E existing \in store :
             Truthy(existing.url) /\ Md5(existing.url) = Md5(unit.url)
    \/ \E existing \in store : Lower(unit.title) = Lower(existing.title)

\* is_duplicate: another stored unit with the same url hash or the same
\* title ignoring case
IsDuplicate(unit, store) ==
    LET existing_news == {n \in store : n.id # unit.id}
    IN  \/ /\ Truthy(unit.url)
           /\ \E existing \in existing_news :
                 Truthy(existing.url) /\ Md5(existing.url) = Md5(unit.url)
        \/ \E existing \in existing_news : Lower(unit.title) = Lower(existing.title)

\* str as the sequence of its characters, over the strings of the model
Chars(str) ==
    CASE str = "T1" -> <<"T", "1">>
      [] str = "t1" -> <<"t", "1">>
      [] str = "T2" -> <<"T", "2">>
      [] str = "s1" -> <<"s", "1">>
      [] str = "s2" -> <<"s", "2">>
      [] str = "r2" -> <<"r", "2">>
      [] str = "1 S" -> <<"1", " ", "S">>
      [] str = "R2" -> <<"R", "2">>
      [] str = "zz" -> <<"z", "z">>
      [] OTHER -> <<>>

LowerChar(c) ==
    CASE c = "T" -> "t"
      [] c = "S" -> "s"
      [] c = "R" -> "r"
      [] OTHER -> c

\* str.lower()
LowerChars(cs) == [i \in 1..Len(cs) |-> LowerChar(cs[i])]

\* keyword in text_to_search
IsSubstring(k, t) ==
    \E i \in 0..(Len(t) - Len(k)) : SubSeq(t, i + 1, i + Len(k)) = k

\* f"{title} {summary}".lower(), and f" {raw_text.lower()}" after it when
\* raw_text is truthy
TextToSearch(unit) ==
    LowerChars(Chars(unit.title) \o <<" ">> \o Chars(unit.summary))
        \o (IF Truthy(unit.raw_text)
            THEN <<" ">> \o LowerChars(Chars(unit.raw_text)) ELSE <<>>)

\* (mutant) the keywords are looked for as they are written
MatchesKeywordsAsWritten(unit, keywords) ==
    \/ keywords = {}
    \/ \E kw \in keywords : IsSubstring(Chars(kw), TextToSearch(unit))

\* matches_keywords(news_item, keywords, db): keywords is the table keywords
MatchesKeywords(unit, keywords) ==
    \/ keywords = {}
    \/ \E kw \in keywords : IsSubstring(LowerChars(Chars(kw)), TextToSearch(unit))

\* the reasons should_generate_post returns
ReasonLanguage == "language does not match"
ReasonNotAllowed == "source not allowed"
ReasonExcluded == "source excluded"
ReasonKeywords == "no keyword"
ReasonDuplicate == "duplicate"
ReasonPassed == "passed"

\* the options of should_generate_post; an id list of None is the empty set
FilterOptions(required_language, required_source_ids, exclude_source_ids, check_keywords, check_duplicates) ==
    [required_language |-> required_language,
     required_source_ids |-> required_source_ids,
     exclude_source_ids |-> exclude_source_ids,
     check_keywords |-> check_keywords,
     check_duplicates |-> check_duplicates]

\* DEFAULT_FILTER_*
DefaultOptions == FilterOptions(None, {}, {}, FALSE, TRUE)

\* (mutant) the duplicate check comes first
ShouldGenerateDuplicateFirst(unit, store, keywords, detected, o) ==
    IF o.check_duplicates /\ IsDuplicate(unit, store)
    THEN <<FALSE, ReasonDuplicate>>
    ELSE IF Truthy(o.required_language) /\ detected # o.required_language
    THEN <<FALSE, ReasonLanguage>>
    ELSE IF o.required_source_ids # {} /\ unit.source_id \notin o.required_source_ids
    THEN <<FALSE, ReasonNotAllowed>>
    ELSE IF o.exclude_source_ids # {} /\ unit.source_id \in o.exclude_source_ids
    THEN <<FALSE, ReasonExcluded>>
    ELSE IF o.check_keywords /\ keywords # {} /\ ~MatchesKeywords(unit, keywords)
    THEN <<FALSE, ReasonKeywords>>
    ELSE <<TRUE, ReasonPassed>>

\* should_generate_post with its options: keywords is the table keywords,
\* detected what detect_language answers for the title and the summary
ShouldGenerate(unit, store, keywords, detected, o) ==
    IF Truthy(o.required_language) /\ detected # o.required_language
    THEN <<FALSE, ReasonLanguage>>
    ELSE IF o.required_source_ids # {} /\ unit.source_id \notin o.required_source_ids
    THEN <<FALSE, ReasonNotAllowed>>
    ELSE IF o.exclude_source_ids # {} /\ unit.source_id \in o.exclude_source_ids
    THEN <<FALSE, ReasonExcluded>>
    ELSE IF o.check_keywords /\ keywords # {} /\ ~MatchesKeywords(unit, keywords)
    THEN <<FALSE, ReasonKeywords>>
    ELSE IF o.check_duplicates /\ IsDuplicate(unit, store)
    THEN <<FALSE, ReasonDuplicate>>
    ELSE <<TRUE, ReasonPassed>>

\* should_generate_post(news_item, db, check_keywords=False), and with the
\* defaults: no language is required, so nothing is detected
ShouldGeneratePost(unit, store) ==
    ShouldGenerate(unit, store, {}, "unknown", DefaultOptions)[1]

-----------------------------------------------------------------------------
(* process_news_items: the sweep *)

\* select(NewsItem).order_by(NewsItem.published_at.desc()).limit(...)
NEWS_ITEMS_PROCESS_LIMIT == 100

\* rows of one published_at: the ORDER BY leaves their order to the database
RECURSIVE InSomeOrder(_)
InSomeOrder(rows) ==
    IF rows = {} THEN <<>>
    ELSE LET row == CHOOSE n \in rows : TRUE
         IN  <<row.id>> \o InSomeOrder(rows \ {row})

\* the place of the row n in the result: after the rows published later, and
\* among the rows published at the same time
Place(n, store) ==
    LET same == InSomeOrder({m \in store : m.published_at.t = n.published_at.t})
    IN  Cardinality({m \in store : m.published_at.t > n.published_at.t})
            + (CHOOSE k \in 1..Len(same) : same[k] = n.id)

OrderByPublishedDesc(store) ==
    [i \in 1..Cardinality(store) |-> (CHOOSE n \in store : Place(n, store) = i).id]

Limit(seq, n) == IF Len(seq) <= n THEN seq ELSE SubSeq(seq, 1, n)

\* (mutant) the SELECT has no LIMIT
WindowOfAll(store) == OrderByPublishedDesc(store)

\* select(NewsItem).order_by(NewsItem.published_at.desc()).limit(...)
Window(store) == Limit(OrderByPublishedDesc(store), NEWS_ITEMS_PROCESS_LIMIT)

Unit(nid) == CHOOSE n \in news : n.id = nid

\* the loop moves to the next item, or the sweep ends
NextItem(rs, e, counted) ==
    IF Len(e.items) = 1 THEN End(rs, e)
    ELSE Step(rs, e, [e EXCEPT !.items = Tail(e.items), !.pc = "published",
                               !.processed_count = e.processed_count + counted])

\* the units that have a FAILED post
FailedUnits == {nid \in StoredIds(news) : PostsOf(nid, {PS_FAILED}) # {}}

\* A beat tick: the sweep reads its window.  began_failed records the units
\* that had a FAILED post at that moment, and met the units that another sweep
\* enqueued generation for while this one was under way.
SweepStart ==
    /\ budget > 0
    /\ CanBegin
    /\ news # {}
    /\ runs' = Begin(runs, [kind |-> "sweep", items |-> Window(news),
                            pc |-> "published", processed_count |-> 0,
                            began_failed |-> FailedUnits, met |-> {}])
    /\ budget' = budget - 1
    /\ last' = <<>>
    /\ gen' = <<>>
    /\ stagger' = <<>>
    /\ UNCHANGED <<auxVars, news, ing, clock, posts, queue, sent>>

\* should_generate_post, then the SELECT of a PUBLISHED post of the item
SweepCheckPublished(e) ==
    LET nid == Head(e.items)
        published == PostsOf(nid, {PS_PUBLISHED})
    IN  /\ e.kind = "sweep" /\ e.pc = "published"
        /\ \/ /\ ~ShouldGeneratePost(Unit(nid), news)
              /\ runs' = NextItem(runs, e, 0)
           \/ /\ ShouldGeneratePost(Unit(nid), news)
              /\ published # {}  \* skipped, or MultipleResultsFound caught
              /\ runs' = NextItem(runs, e, 0)
           \/ /\ ShouldGeneratePost(Unit(nid), news)
              /\ published = {}
              /\ runs' = Step(runs, e, [e EXCEPT !.pc = "generating"])
        /\ last' = <<>>
        /\ gen' = <<>>
        /\ stagger' = <<>>
        /\ UNCHANGED <<auxVars, news, ing, clock, posts, queue, sent, budget>>

\* (mutant) a NEW post does not stop the dispatch
MayDispatchUnlessGenerated(generating) ==
    \A p \in generating : posts[p].status # PS_GENERATED

\* generating_post is None
MayDispatch(generating) == generating = {}

GENERATE_DELAY_BASE_SECONDS == 10
GENERATE_DELAY_INCREMENT_SECONDS == 2

\* (mutant) the first dispatch sleeps the base delay too
StaggerDelayFromBase(processed_count) ==
    GENERATE_DELAY_BASE_SECONDS + processed_count * GENERATE_DELAY_INCREMENT_SECONDS

\* the time.sleep before generate_post_for_news.delay: none when
\* processed_count is 0
StaggerDelay(processed_count) ==
    IF processed_count > 0
    THEN GENERATE_DELAY_BASE_SECONDS + processed_count * GENERATE_DELAY_INCREMENT_SECONDS
    ELSE 0

\* the other sweeps under way have met the dispatch of nid by sweep e
Meet(x, nid) == IF x.kind = "sweep" THEN [x EXCEPT !.met = @ \cup {nid}] ELSE x
MeetOthers(rs, e, nid) ==
    Begin(BagOfAll(LAMBDA x : Meet(x, nid), End(rs, e)), e)

\* the SELECT of a GENERATED or NEW post of the item, then
\* generate_post_for_news.delay(news_item.id)
SweepDispatch(e) ==
    LET nid == Head(e.items)
        generating == PostsOf(nid, {PS_GENERATED, PS_NEW})
    IN  /\ e.kind = "sweep" /\ e.pc = "generating"
        /\ \/ /\ ~MayDispatch(generating)  \* skipped, or MultipleResultsFound caught
              /\ runs' = NextItem(runs, e, 0)
              /\ UNCHANGED queue
              /\ stagger' = <<>>
           \/ /\ MayDispatch(generating)
              /\ queue' = Delay(queue, GenerateTask(nid))
              /\ runs' = NextItem(MeetOthers(runs, e, nid), e, 1)
              /\ stagger' = <<[k |-> e.processed_count,
                               delay |-> StaggerDelay(e.processed_count)]>>
        /\ last' = <<>>
        /\ gen' = <<>>
        /\ UNCHANGED <<auxVars, news, ing, clock, posts, sent, budget>>

-----------------------------------------------------------------------------
(* generate_post_for_news and POST /generate *)

\* GigaChatClient: self.max_retries and self.retry_delay (seconds)
client_max_retries == 3
retry_delay == 2

\* the waits, in seconds, a rate-limited provider may ask for
RateLimitWaits == {1, 5}

ProviderAnswer(kind, text, wait) == [kind |-> kind, text |-> text, wait |-> wait]

\* what giga.chat may do: return a text, raise ResponseError 429 asking for a
\* wait, or raise another error
ProviderAnswers ==
    {ProviderAnswer("ok", t, 0) : t \in Texts}
        \cup {ProviderAnswer("rate_limit", None, w) : w \in RateLimitWaits}
        \cup {ProviderAnswer("error", None, 0)}

\* wait_time = self.retry_delay * (2 ** retry_count)
WaitTime(retry_count) == retry_delay * 2^retry_count

\* a generation under way: at pc "provider" the text is being asked for;
\* asked is the wait the last rate limit named and slept the time.sleep made
\* after it
Generation(kind, nid) ==
    [kind |-> kind, news_id |-> nid, text |-> None, pc |-> "provider",
     post |-> 0, loaded |-> None, retry_count |-> 0, asked |-> 0, slept |-> 0]

\* The task is delivered: the news item is read and PostGenerator.generate_post
\* is called.  A missing item ends the task.
GenerateStart(nid) ==
    /\ BagIn(GenerateTask(nid), queue)
    /\ CanBegin
    /\ queue' = queue (-) SetToBag({GenerateTask(nid)})
    /\ runs' = IF nid \in StoredIds(news)
               THEN Begin(runs, Generation("generate", nid))
               ELSE runs
    /\ last' = <<>>
    /\ gen' = <<>>
    /\ stagger' = <<>>
    /\ UNCHANGED <<auxVars, news, ing, clock, posts, sent, budget>>

\* POST /generate with a news_id: the filter with its defaults, then the
\* generator; a 404 or a 400 ends the request with nothing written
GenerateNowStart(nid) ==
    /\ budget > 0
    /\ CanBegin
    /\ budget' = budget - 1
    /\ runs' = IF /\ nid \in StoredIds(news)
                  /\ ShouldGeneratePost(Unit(nid), news)
               THEN Begin(runs, Generation("generate_now", nid))
               ELSE runs
    /\ last' = <<>>
    /\ gen' = <<>>
    /\ stagger' = <<>>
    /\ UNCHANGED <<auxVars, news, ing, clock, posts, queue, sent>>

\* how a generation ended: provider_error (AIProviderError), raised (the
\* SELECT of the GENERATED post raised), updated or created (post is the row);
\* retry_count is that of the last call of the provider and asked the wait
\* its rate limit named, 0 when it was no rate limit
GenerationEnded(e, outcome, pid) ==
    <<[kind |-> e.kind, news_id |-> e.news_id, text |-> e.text,
       loaded |-> e.loaded, outcome |-> outcome, post |-> pid,
       retry_count |-> e.retry_count, asked |-> e.asked]>>

\* generate_text raises GigaChatError on the answer: a rate limit at
\* max_retries, or any other error
ProviderRaises(e, answer) ==
    \/ answer.kind = "rate_limit" /\ e.retry_count >= client_max_retries
    \/ answer.kind \notin {"ok", "rate_limit"}

\* (mutant) a provider error leaves a FAILED post behind
ProviderCallLeavesFailed(e, answer) ==
    /\ e.kind \in {"generate", "generate_now"} /\ e.pc = "provider"
    /\ runs' =
          CASE answer.kind = "ok" ->
                 Step(runs, e, [e EXCEPT !.text = answer.text, !.pc = "select",
                                         !.retry_count = 0, !.asked = 0,
                                         !.slept = 0])
            [] answer.kind = "rate_limit" /\ ~ProviderRaises(e, answer) ->
                 Step(runs, e, [e EXCEPT !.retry_count = e.retry_count + 1,
                                         !.asked = answer.wait,
                                         !.slept = WaitTime(e.retry_count)])
            [] OTHER -> End(runs, e)
    /\ last' = <<>>
    /\ gen' = IF ProviderRaises(e, answer)
              THEN GenerationEnded([e EXCEPT !.asked = answer.wait], "provider_error", 0) ELSE <<>>
    /\ stagger' = <<>>
    /\ IF ProviderRaises(e, answer) /\ Len(posts) < MaxPosts
       THEN /\ posts' = Insert(posts, PostRow(e.news_id, "", PS_FAILED))
            /\ sent' = Append(sent, 0)
       ELSE UNCHANGED <<posts, sent>>
    /\ UNCHANGED <<auxVars, news, ing, clock, queue, budget>>

\* (mutant) a rate limit is retried once more
ProviderCallOneMore(e, answer) ==
    /\ e.kind \in {"generate", "generate_now"} /\ e.pc = "provider"
    /\ runs' =
          CASE answer.kind = "ok" ->
                 Step(runs, e, [e EXCEPT !.text = answer.text, !.pc = "select",
                                         !.retry_count = 0, !.asked = 0,
                                         !.slept = 0])
            [] answer.kind = "rate_limit" /\ e.retry_count <= client_max_retries ->
                 Step(runs, e, [e EXCEPT !.retry_count = e.retry_count + 1,
                                         !.asked = answer.wait,
                                         !.slept = WaitTime(e.retry_count)])
            [] OTHER -> End(runs, e)
    /\ last' = <<>>
    /\ gen' = IF answer.kind = "ok" \/ (answer.kind = "rate_limit"
                                          /\ e.retry_count <= client_max_retries)
              THEN <<>> ELSE GenerationEnded([e EXCEPT !.asked = answer.wait], "provider_error", 0)
    /\ stagger' = <<>>
    /\ UNCHANGED <<auxVars, news, ing, clock, posts, queue, sent, budget>>

\* One call of giga.chat in GigaChatClient.generate_text.  A rate limit is
\* retried after time.sleep(wait_time) while retry_count < max_retries; then,
\* and on any other error, GigaChatError is raised: the task logs the
\* AIProviderError and the endpoint answers 500, with nothing written.
ProviderCall(e, answer) ==
    /\ e.kind \in {"generate", "generate_now"} /\ e.pc = "provider"
    /\ runs' =
          CASE answer.kind = "ok" ->
                 Step(runs, e, [e EXCEPT !.text = answer.text, !.pc = "select",
                                         !.retry_count = 0, !.asked = 0,
                                         !.slept = 0])
            [] answer.kind = "rate_limit" ->
                 IF e.retry_count < client_max_retries
                 THEN Step(runs, e, [e EXCEPT !.retry_count = e.retry_count + 1,
                                              !.asked = answer.wait,
                                              !.slept = WaitTime(e.retry_count)])
                 ELSE End(runs, e)
            [] OTHER -> End(runs, e)
    /\ last' = <<>>
    /\ gen' = IF answer.kind = "ok" \/ (answer.kind = "rate_limit"
                                          /\ e.retry_count < client_max_retries)
              THEN <<>> ELSE GenerationEnded([e EXCEPT !.asked = answer.wait], "provider_error", 0)
    /\ stagger' = <<>>
    /\ UNCHANGED <<auxVars, news, ing, clock, posts, queue, sent, budget>>

\* select(Post).filter(Post.news_id == news_id, Post.status == GENERATED)
ExistingGenerated(nid) == PostsOf(nid, {PS_GENERATED})

\* generated_text of the Post object the session loaded, None without one
LoadedText(pid) == IF pid = 0 THEN None ELSE posts[pid].generated_text

\* The SELECT of the GENERATED post of the item.  MultipleResultsFound is
\* caught by the task (logged) and answered 500 by the endpoint.
GenerateSelect(e) ==
    LET existing == ExistingGenerated(e.news_id)
        existing_post == ScalarOneOrNone(existing)
    IN  /\ e.kind \in {"generate", "generate_now"} /\ e.pc = "select"
        /\ runs' = IF ScalarRaises(existing) THEN End(runs, e)
                   ELSE Step(runs, e, [e EXCEPT !.pc = "commit",
                                                !.post = existing_post,
                                                !.loaded = LoadedText(existing_post)])
        /\ last' = <<>>
        /\ gen' = IF ScalarRaises(existing)
                  THEN GenerationEnded(e, "raised", 0) ELSE <<>>
        /\ stagger' = <<>>
        /\ UNCHANGED <<auxVars, news, ing, clock, posts, queue, sent, budget>>

\* after the commit the task goes on to schedule the publish; the request ends
AfterCommit(rs, e, pid) ==
    IF e.kind = "generate"
    THEN Step(rs, e, [e EXCEPT !.pc = "enqueue", !.post = pid])
    ELSE End(rs, e)

\* existing_post.generated_text = generated_text: the UPDATE names the row by
\* id and sets generated_text alone, and there is none when the text equals
\* the loaded one
WriteText(ps, pid, loaded, text) ==
    IF text # loaded THEN [ps EXCEPT ![pid].generated_text = text] ELSE ps

\* existing_post.generated_text = generated_text, or db.add(Post(...,
\* status=GENERATED)); then the commit and db.refresh(post).  The INSERT
\* raises when no news item has the id (ForeignKey("news_items.id")), the
\* UPDATE or the refresh when the post is gone; a write of a row that a
\* transaction under way deleted waits for that transaction.
GenerateCommit(e) ==
    /\ e.kind \in {"generate", "generate_now"} /\ e.pc = "commit"
    /\ e.post = 0 => e.news_id \notin LockedNews
    /\ (e.post # 0 /\ e.text # e.loaded) => e.post \notin LockedPosts
    /\ \/ /\ e.post = 0
          /\ e.news_id \in StoredIds(news)
          /\ Len(posts) < MaxPosts
          /\ posts' = Insert(posts, PostRow(e.news_id, e.text, PS_GENERATED))
          /\ sent' = Append(sent, 0)
          /\ runs' = AfterCommit(runs, e, Len(posts) + 1)
          /\ gen' = GenerationEnded(e, "created", Len(posts) + 1)
       \/ /\ e.post # 0
          /\ posts[e.post] # NoPost
          /\ posts' = WriteText(posts, e.post, e.loaded, e.text)
          /\ sent' = sent
          /\ runs' = AfterCommit(runs, e, e.post)
          /\ gen' = GenerationEnded(e, "updated", e.post)
       \/ /\ \/ e.post = 0 /\ e.news_id \notin StoredIds(news)
             \/ e.post # 0 /\ posts[e.post] = NoPost
          /\ UNCHANGED <<posts, sent>>
          /\ runs' = End(runs, e)
          /\ gen' = GenerationEnded(e, "raised", 0)
    /\ last' = <<>>
    /\ stagger' = <<>>
    /\ UNCHANGED <<auxVars, news, ing, clock, queue, budget>>

\* time.sleep(PUBLISH_DELAY_AFTER_GENERATION_SECONDS); publish_post.delay(post.id)
GenerateEnqueue(e) ==
    /\ e.kind = "generate" /\ e.pc = "enqueue"
    /\ queue' = Delay(queue, PublishTask(e.post))
    /\ runs' = End(runs, e)
    /\ last' = <<>>
    /\ gen' = <<>>
    /\ stagger' = <<>>
    /\ UNCHANGED <<auxVars, news, ing, clock, posts, sent, budget>>

-----------------------------------------------------------------------------
(* POST /posts/ *)

\* create_post: a row with the status the request names (NEW by default)
CreatePost(nid, text, status) ==
    /\ budget > 0
    /\ nid \in StoredIds(news)
    /\ Len(posts) < MaxPosts
    /\ budget' = budget - 1
    /\ posts' = Insert(posts, PostRow(nid, text, status))
    /\ sent' = Append(sent, 0)
    /\ last' = <<>>
    /\ gen' = <<>>
    /\ stagger' = <<>>
    /\ UNCHANGED <<auxVars, news, ing, clock, queue, runs>>

-----------------------------------------------------------------------------
(* publish_post, POST /publish and TelegramPublisher.publish_post *)

\* the column values of the Post object the session loaded
Load(pid) ==
    [status |-> posts[pid].status, published_at |-> posts[pid].published_at,
     text |-> posts[pid].generated_text]

\* (mutant) the short circuit looks at the status alone
AlreadyPublishedByStatus(loaded) == loaded.status = PS_PUBLISHED

\* post.status == PostStatus.PUBLISHED and post.published_at
AlreadyPublished(loaded) ==
    loaded.status = PS_PUBLISHED /\ loaded.published_at # NoTime

\* not text or not text.strip()
EmptyText(text) == text = ""

\* what client.send_message may do, connect() included
FloodWaits == {1, 5}

SendAnswer(kind, seconds) == [kind |-> kind, seconds |-> seconds]

SendAnswers ==
    {SendAnswer("ok", 0), SendAnswer("error", 0)}
        \cup {SendAnswer("flood", w) : w \in FloodWaits}

\* (mutant) the sleep is the wait the FloodWaitError names
FloodSleepExact(seconds) == seconds

\* asyncio.sleep(wait_time + 1)
FloodSleep(seconds) == seconds + 1

\* max_retries of the FloodWait loop
max_retries == 3

Attempt(kind, pid, loaded) ==
    [kind |-> kind, post |-> pid, loaded |-> loaded, retry_count |-> 0,
     calls |-> 0, asked |-> 0, slept |-> 0,
     pc |-> IF EmptyText(loaded.text) THEN "failed" ELSE "send"]

\* what the attempt returned: outcome is skipped (the short circuit),
\* published or failed; success is PublishResponse.success of POST /publish,
\* and for the task whether it ended without marking the post FAILED; calls
\* counts the calls of client.send_message and retry_count the FloodWaitErrors
Returned(kind, pid, loaded, outcome, success, calls, retry_count) ==
    <<[kind |-> kind, post |-> pid, loaded |-> loaded, outcome |-> outcome,
       success |-> success, calls |-> calls, retry_count |-> retry_count]>>

\* The task is delivered: the post is read; a missing post and a post already
\* published end the task.
PublishStart(pid) ==
    /\ BagIn(PublishTask(pid), queue)
    /\ CanBegin
    /\ queue' = queue (-) SetToBag({PublishTask(pid)})
    /\ IF pid \notin PostIds
       THEN runs' = runs /\ last' = <<>>
       ELSE IF AlreadyPublished(Load(pid))
       THEN runs' = runs /\ last' = Returned("publish", pid, Load(pid), "skipped", TRUE, 0, 0)
       ELSE runs' = Begin(runs, Attempt("publish", pid, Load(pid))) /\ last' = <<>>
    /\ gen' = <<>>
    /\ stagger' = <<>>
    /\ UNCHANGED <<auxVars, news, ing, clock, posts, sent, budget>>

\* POST /publish with a post_id: 404 for a missing post, success=False with
\* "already published" for a post already published
PublishNowStart(pid) ==
    /\ budget > 0
    /\ CanBegin
    /\ pid \in PostIds
    /\ budget' = budget - 1
    /\ IF AlreadyPublished(Load(pid))
       THEN runs' = runs /\ last' = Returned("publish_now", pid, Load(pid), "skipped", FALSE, 0, 0)
       ELSE runs' = Begin(runs, Attempt("publish_now", pid, Load(pid))) /\ last' = <<>>
    /\ gen' = <<>>
    /\ stagger' = <<>>
    /\ UNCHANGED <<auxVars, news, ing, clock, posts, queue, sent>>

\* (mutant) the loop goes on while retry_count <= max_retries
PublishSendOneMore(e, answer) ==
    /\ e.kind \in {"publish", "publish_now"} /\ e.pc = "send"
    /\ \/ /\ answer.kind = "ok"
          /\ sent' = [sent EXCEPT ![e.post] = sent[e.post] + 1]
          /\ runs' = Step(runs, e, [e EXCEPT !.pc = "sent", !.calls = e.calls + 1,
                                             !.asked = 0, !.slept = 0])
       \/ /\ answer.kind = "flood"
          /\ sent' = sent
          /\ runs' = Step(runs, e,
                IF e.retry_count + 1 <= max_retries
                THEN [e EXCEPT !.retry_count = e.retry_count + 1,
                               !.calls = e.calls + 1,
                               !.asked = answer.seconds,
                               !.slept = FloodSleep(answer.seconds)]
                ELSE [e EXCEPT !.retry_count = e.retry_count + 1,
                               !.calls = e.calls + 1,
                               !.asked = 0, !.slept = 0, !.pc = "failed"])
       \/ /\ answer.kind = "error"
          /\ sent' = sent
          /\ runs' = Step(runs, e, [e EXCEPT !.pc = "failed", !.calls = e.calls + 1,
                                             !.asked = 0, !.slept = 0])
    /\ last' = <<>>
    /\ gen' = <<>>
    /\ stagger' = <<>>
    /\ UNCHANGED <<auxVars, news, ing, clock, posts, queue, budget>>

\* One turn of the FloodWait loop: the message is sent, or FloodWaitError
\* counts a retry and is raised again at max_retries, or another error ends
\* the loop.  asked is wait_time of the FloodWaitError the attempt sleeps for
\* and slept its asyncio.sleep.
PublishSend(e, answer) ==
    /\ e.kind \in {"publish", "publish_now"} /\ e.pc = "send"
    /\ \/ /\ answer.kind = "ok"
          /\ sent' = [sent EXCEPT ![e.post] = sent[e.post] + 1]
          /\ runs' = Step(runs, e, [e EXCEPT !.pc = "sent", !.calls = e.calls + 1,
                                             !.asked = 0, !.slept = 0])
       \/ /\ answer.kind = "flood"
          /\ sent' = sent
          /\ runs' = Step(runs, e,
                IF e.retry_count + 1 < max_retries
                THEN [e EXCEPT !.retry_count = e.retry_count + 1,
                               !.calls = e.calls + 1,
                               !.asked = answer.seconds,
                               !.slept = FloodSleep(answer.seconds)]
                ELSE [e EXCEPT !.retry_count = e.retry_count + 1,
                               !.calls = e.calls + 1,
                               !.asked = 0, !.slept = 0, !.pc = "failed"])
       \/ /\ answer.kind = "error"
          /\ sent' = sent
          /\ runs' = Step(runs, e, [e EXCEPT !.pc = "failed", !.calls = e.calls + 1,
                                             !.asked = 0, !.slept = 0])
    /\ last' = <<>>
    /\ gen' = <<>>
    /\ stagger' = <<>>
    /\ UNCHANGED <<auxVars, news, ing, clock, posts, queue, budget>>

\* post.status = PUBLISHED; post.published_at = now; db.commit(): the UPDATE
\* names the row by id and sets the columns that differ from the loaded ones
WritePublished(ps, pid, loaded, now) ==
    [ps EXCEPT ![pid].status = IF loaded.status # PS_PUBLISHED
                               THEN PS_PUBLISHED ELSE ps[pid].status,
               ![pid].published_at = Aware(now)]

\* post.status = FAILED; db.commit(), in _mark_post_as_failed and again in
\* _publish_post_async: no UPDATE when the loaded status is FAILED
WriteFailed(ps, pid, loaded) ==
    IF loaded.status # PS_FAILED THEN [ps EXCEPT ![pid].status = PS_FAILED] ELSE ps

\* after a delivered message: the post is marked PUBLISHED and the message id
\* is returned
PublishMarkPublished(e) ==
    /\ e.kind \in {"publish", "publish_now"} /\ e.pc = "sent"
    /\ posts' = WritePublished(posts, e.post, e.loaded, clock)
    /\ clock' = clock + 1
    /\ runs' = End(runs, e)
    /\ last' = Returned(e.kind, e.post, e.loaded, "published", TRUE,
                      e.calls, e.retry_count)
    /\ gen' = <<>>
    /\ stagger' = <<>>
    /\ UNCHANGED <<auxVars, news, ing, queue, sent, budget>>

\* after an empty text or a failed send: _mark_post_as_failed, None returned
PublishMarkFailed(e) ==
    /\ e.kind \in {"publish", "publish_now"} /\ e.pc = "failed"
    /\ posts' = WriteFailed(posts, e.post, e.loaded)
    /\ runs' = End(runs, e)
    /\ last' = Returned(e.kind, e.post, e.loaded, "failed", FALSE,
                      e.calls, e.retry_count)
    /\ gen' = <<>>
    /\ stagger' = <<>>
    /\ UNCHANGED <<auxVars, news, ing, clock, queue, sent, budget>>

-----------------------------------------------------------------------------
(* publish_generated_posts: the republish sweep *)

PUBLISH_BATCH_LIMIT == 10

RECURSIVE OrderByIdAsc(_)
OrderByIdAsc(ids) ==
    IF ids = {} THEN <<>>
    ELSE LET first == CHOOSE p \in ids : \A q \in ids : p <= q
         IN  <<first>> \o OrderByIdAsc(ids \ {first})

\* (mutant) the batch takes every post that is not published
StuckPostsNotPublished ==
    Limit(OrderByIdAsc({p \in PostIds : posts[p].status # PS_PUBLISHED}),
          PUBLISH_BATCH_LIMIT)

\* (mutant) the batch takes the posts that are NEW
StuckPostsOfNew ==
    Limit(OrderByIdAsc({p \in PostIds : posts[p].status = PS_NEW}),
          PUBLISH_BATCH_LIMIT)

\* select(Post).filter(Post.status == GENERATED).order_by(Post.id.asc()).limit(...)
StuckPosts ==
    Limit(OrderByIdAsc({p \in PostIds : posts[p].status = PS_GENERATED}),
          PUBLISH_BATCH_LIMIT)

RECURSIVE DelayAll(_, _)
DelayAll(q, pids) ==
    IF pids = <<>> THEN q
    ELSE DelayAll(Delay(q, PublishTask(Head(pids))), Tail(pids))

\* A beat tick: publish_post.delay(post.id) for each post of the batch
RepublishStuck ==
    /\ budget > 0
    /\ budget' = budget - 1
    /\ queue' = DelayAll(queue, StuckPosts)
    /\ last' = <<>>
    /\ gen' = <<>>
    /\ stagger' = <<>>
    /\ UNCHANGED <<auxVars, news, ing, clock, posts, runs, sent>>

-----------------------------------------------------------------------------
(* The pipeline *)

\* Stored units a sweep may meet: a unit on its own, which the filter lets
\* through, and the same unit beside one whose title differs by case alone,
\* which makes each the duplicate of the other
UnitA == NewsRow(RawItem("T1", "http://x/1", "s1", Missing, Aware(1)), 1, 0)
UnitC == NewsRow(RawItem("t1", None, "s1", Missing, Aware(3)), 2, 0)

NewsStores == {{UnitA}, {UnitA, UnitC}}

Init ==
    /\ news \in NewsStores
    /\ ing = [r \in IngestSlots |-> IdleRun]
    /\ clock = 10
    /\ PipeAtRest
    /\ AuthAtRest
    /\ budget = MaxTriggers
    /\ sources = AllEnabled

Next ==
    \/ SweepStart
    \/ \E e \in Running : SweepCheckPublished(e)
    \/ \E e \in Running : SweepDispatch(e)
    \/ \E nid \in StoredIds(news) : GenerateStart(nid)
    \/ \E nid \in StoredIds(news) : GenerateNowStart(nid)
    \/ \E e \in Running, answer \in ProviderAnswers : ProviderCall(e, answer)
    \/ \E e \in Running : GenerateSelect(e)
    \/ \E e \in Running : GenerateCommit(e)
    \/ \E e \in Running : GenerateEnqueue(e)
    \/ \E nid \in StoredIds(news), text \in ManualTexts, status \in PostStatuses :
          CreatePost(nid, text, status)
    \/ \E pid \in PostIds : PublishStart(pid)
    \/ \E pid \in PostIds : PublishNowStart(pid)
    \/ \E e \in Running, answer \in SendAnswers : PublishSend(e, answer)
    \/ \E e \in Running : PublishMarkPublished(e)
    \/ \E e \in Running : PublishMarkFailed(e)
    \/ RepublishStuck

Spec == Init /\ [][Next]_vars

-----------------------------------------------------------------------------
(* The Filter Engine on its own *)

\* a unit with a raw text and a title of its own, beside the two others
UnitB == NewsRow(RawItem("T2", "http://x/2", "s2", "r2", Aware(2)), 1, 0)

\* what detect_language may answer
Languages == {"en", "ru", "unknown"}

\* the tables keywords a call may find
KeywordTables == SUBSET {"T2", "1 S", "zz"}

OptionSets ==
    { FilterOptions(l, a, x, k, d) :
        l \in {None, "en"}, a \in {{}, {1}}, x \in {{}, {1}},
        k \in BOOLEAN, d \in BOOLEAN }

\* The call of should_generate_post on a stored unit.
FilterCall(unit, keywords, detected, o) ==
    /\ flt = <<>>
    /\ unit \in news
    /\ flt' = <<[unit |-> unit, keywords |-> keywords, detected |-> detected,
                 options |-> o,
                 result |-> ShouldGenerate(unit, news, keywords, detected, o)]>>
    /\ UNCHANGED <<ingVars, pipeVars, sources, del, authVars>>

InitFilter ==
    /\ news = {UnitA, UnitB, UnitC}
    /\ ing = [r \in IngestSlots |-> IdleRun]
    /\ clock = 10
    /\ PipeAtRest
    /\ AuthAtRest
    /\ budget = 0
    /\ sources = AllEnabled

NextFilter ==
    \E unit \in news, keywords \in KeywordTables, detected \in Languages,
       o \in OptionSets : FilterCall(unit, keywords, detected, o)

SpecFilter == InitFilter /\ [][NextFilter]_vars

\* The pipeline left to the beat ticks of process_news_items and to the tasks
\* they enqueue: no request, no republish sweep.
NextSweeps ==
    \/ SweepStart
    \/ \E e \in Running : SweepCheckPublished(e)
    \/ \E e \in Running : SweepDispatch(e)
    \/ \E nid \in StoredIds(news) : GenerateStart(nid)
    \/ \E e \in Running, answer \in ProviderAnswers : ProviderCall(e, answer)
    \/ \E e \in Running : GenerateSelect(e)
    \/ \E e \in Running : GenerateCommit(e)
    \/ \E e \in Running : GenerateEnqueue(e)
    \/ \E pid \in PostIds : PublishStart(pid)
    \/ \E e \in Running, answer \in SendAnswers : PublishSend(e, answer)
    \/ \E e \in Running : PublishMarkPublished(e)
    \/ \E e \in Running : PublishMarkFailed(e)

SpecSweeps == Init /\ [][NextSweeps]_vars

\* The pipeline left to both beat schedules and to the tasks they enqueue:
\* no request.
NextTasks ==
    \/ NextSweeps
    \/ RepublishStuck

SpecTasks == Init /\ [][NextTasks]_vars


-----------------------------------------------------------------------------
(* process_news_items over a window of three items that the filter passes *)

\* a third unit, with a title and a url of its own
UnitD == NewsRow(RawItem("zz", "http://x/3", "s1", Missing, Aware(4)), 1, 0)

InitStagger ==
    /\ news = {UnitA, UnitB, UnitD}
    /\ ing = [r \in IngestSlots |-> IdleRun]
    /\ clock = 10
    /\ PipeAtRest
    /\ AuthAtRest
    /\ budget = MaxTriggers
    /\ sources = AllEnabled

NextStagger ==
    \/ SweepStart
    \/ \E e \in Running : SweepCheckPublished(e)
    \/ \E e \in Running : SweepDispatch(e)
    \/ \E nid \in StoredIds(news), status \in PostStatuses :
          CreatePost(nid, "text-m", status)

SpecStagger == InitStagger /\ [][NextStagger]_vars

\* The pipeline left to its beat schedules and tasks, beside an operator who
\* does nothing but create NEW posts (POST /posts/ with its default status).
NextNewPost ==
    \/ NextTasks
    \/ \E nid \in StoredIds(news), text \in ManualTexts : CreatePost(nid, text, PS_NEW)

SpecNewPost == Init /\ [][NextNewPost]_vars

-----------------------------------------------------------------------------
(* process_news_items over a store of more units than its window takes *)

\* the stored units: one more than NEWS_ITEMS_PROCESS_LIMIT
WindowRows == 101

\* the i-th stored unit, a title and a time of its own; the unit oldest is
\* the one published before all the others
WindowUnit(i, oldest) ==
    NewsRow(RawItem(ToString(i), None, "s1", Missing,
                    Aware(IF i = oldest THEN 0 ELSE i)), 1, 0)

\* the units that may be the oldest one
OldestUnits == {1, 2, WindowRows}

\* one beat tick of process_news_items is to come
InitWindow ==
    /\ \E oldest \in OldestUnits :
          news = {WindowUnit(i, oldest) : i \in 1..WindowRows}
    /\ ing = [r \in IngestSlots |-> IdleRun]
    /\ clock = 10
    /\ PipeAtRest
    /\ AuthAtRest
    /\ budget = 1
    /\ sources = AllEnabled

NextWindow ==
    \/ SweepStart
    \/ \E e \in Running : SweepCheckPublished(e)
    \/ \E e \in Running : SweepDispatch(e)

SpecWindow == InitWindow /\ [][NextWindow]_vars

-----------------------------------------------------------------------------
(* POST /publish for a post that a failed publication left FAILED *)

InitFailedPost ==
    /\ news = {UnitA}
    /\ ing = [r \in IngestSlots |-> IdleRun]
    /\ clock = 10
    /\ posts = <<PostRow(UnitA.id, "text-a", PS_FAILED)>>
    /\ sent = <<0>>
    /\ queue = EmptyBag
    /\ runs = EmptyBag
    /\ last = <<>>
    /\ gen = <<>>
    /\ stagger = <<>>
    /\ flt = <<>>
    /\ del = NoDelete
    /\ AuthAtRest
    /\ budget = MaxTriggers
    /\ sources = AllEnabled

NextFailedPost ==
    \/ \E pid \in PostIds : PublishNowStart(pid)
    \/ \E e \in Running, answer \in SendAnswers : PublishSend(e, answer)
    \/ \E e \in Running : PublishMarkPublished(e)
    \/ \E e \in Running : PublishMarkFailed(e)

SpecFailedPost == InitFailedPost /\ [][NextFailedPost]_vars

-----------------------------------------------------------------------------
(* The beat of publish_generated_posts going on for ever, beside generation
   tasks whose worker may crash between the commit and publish_post.delay *)

\* A beat tick of 'publish-generated-posts', every
\* PUBLISH_POSTS_INTERVAL_SECONDS for as long as the beat runs.  The sweep is
\* a task of the same queue: it runs once the publish tasks enqueued before
\* it have been taken.
RepublishBeat ==
    /\ \A pid \in PostIds : ~BagIn(PublishTask(pid), queue)
    /\ queue' = DelayAll(queue, StuckPosts)
    /\ last' = <<>>
    /\ gen' = <<>>
    /\ stagger' = <<>>
    /\ UNCHANGED <<auxVars, news, ing, clock, posts, runs, sent, budget>>

\* The worker dies in time.sleep(PUBLISH_DELAY_AFTER_GENERATION_SECONDS),
\* after the commit of the post: publish_post.delay is never reached.  With
\* task_acks_late the message is not acknowledged yet: the broker delivers
\* it again when the whole worker is gone, and the task is lost when the
\* pool process alone died (budget counts the crashes to come).
GenerateCrash(e, redelivered) ==
    /\ e.kind = "generate" /\ e.pc = "enqueue"
    /\ budget > 0
    /\ budget' = budget - 1
    /\ queue' = IF redelivered THEN Delay(queue, GenerateTask(e.news_id))
                ELSE queue
    /\ runs' = End(runs, e)
    /\ last' = <<>>
    /\ gen' = <<>>
    /\ stagger' = <<>>
    /\ UNCHANGED <<auxVars, news, ing, clock, posts, sent>>

\* the units whose generation is under way
InitialUnits == {UnitA}

\* what the provider and the channel answer here: a text, a rate limit or
\* another error; a delivery, a FloodWaitError or another error
RecoveryProviderAnswers ==
    {answer \in ProviderAnswers : answer.text # "text-b" /\ answer.wait # 5}
RecoverySendAnswers == {answer \in SendAnswers : answer.seconds # 5}

\* process_news_items has enqueued the generation of every stored unit
InitRecovery ==
    /\ news = InitialUnits
    /\ ing = [r \in IngestSlots |-> IdleRun]
    /\ clock = 10
    /\ posts = <<>>
    /\ sent = <<>>
    /\ queue = SetToBag({GenerateTask(nid) : nid \in StoredIds(news)})
    /\ runs = EmptyBag
    /\ last = <<>>
    /\ gen = <<>>
    /\ stagger = <<>>
    /\ flt = <<>>
    /\ del = NoDelete
    /\ AuthAtRest
    /\ budget = Cardinality(news)
    /\ sources = AllEnabled

NextRecovery ==
    \/ \E nid \in StoredIds(news) : GenerateStart(nid)
    \/ \E e \in Running, answer \in RecoveryProviderAnswers : ProviderCall(e, answer)
    \/ \E e \in Running : GenerateSelect(e)
    \/ \E e \in Running : GenerateCommit(e)
    \/ \E e \in Running : GenerateEnqueue(e)
    \/ \E e \in Running, redelivered \in BOOLEAN : GenerateCrash(e, redelivered)
    \/ \E pid \in PostIds : PublishStart(pid)
    \/ \E e \in Running, answer \in RecoverySendAnswers : PublishSend(e, answer)
    \/ \E e \in Running : PublishMarkPublished(e)
    \/ \E e \in Running : PublishMarkFailed(e)
    \/ RepublishBeat

\* The beat is a clock: its tick comes again and again whatever the workers
\* do.  A queued task is taken whenever a worker is free, and a worker that
\* took a task goes on with its code.
FairRecovery ==
    /\ SF_vars(RepublishBeat)
    /\ \A nid \in StoredIds(InitialUnits) : SF_vars(GenerateStart(nid))
    /\ \A pid \in 1..MaxPosts : SF_vars(PublishStart(pid))
    /\ \A nid \in StoredIds(InitialUnits) :
          /\ WF_vars(\E e \in Running, answer \in RecoveryProviderAnswers :
                        /\ e.kind = "generate" /\ e.news_id = nid
                        /\ ProviderCall(e, answer))
          /\ WF_vars(\E e \in Running :
                        e.kind = "generate" /\ e.news_id = nid /\ GenerateSelect(e))
          /\ WF_vars(\E e \in Running :
                        e.kind = "generate" /\ e.news_id = nid /\ GenerateCommit(e))
          /\ WF_vars(\E e \in Running :
                        e.kind = "generate" /\ e.news_id = nid /\ GenerateEnqueue(e))
    /\ \A pid \in 1..MaxPosts :
          /\ WF_vars(\E e \in Running, answer \in RecoverySendAnswers :
                        /\ e.kind = "publish" /\ e.post = pid
                        /\ PublishSend(e, answer))
          /\ WF_vars(\E e \in Running :
                        e.kind = "publish" /\ e.post = pid /\ PublishMarkPublished(e))
          /\ WF_vars(\E e \in Running :
                        e.kind = "publish" /\ e.post = pid /\ PublishMarkFailed(e))

SpecRecovery == InitRecovery /\ [][NextRecovery]_vars /\ FairRecovery

-----------------------------------------------------------------------------
(* publish_generated_posts over a table with more GENERATED posts than a
   batch takes *)

\* the rows of table posts at the start
StuckRows == 11

\* the status of row p when it is not GENERATED
OtherStatus(p) ==
    CASE p % 3 = 0 -> PS_NEW
      [] p % 3 = 1 -> PS_PUBLISHED
      [] OTHER -> PS_FAILED

\* the row p of a table whose GENERATED posts are those of generated
StuckRow(p, generated) ==
    IF p \in generated THEN PostRow(UnitA.id, "text-a", PS_GENERATED)
    ELSE IF OtherStatus(p) = PS_PUBLISHED
    THEN [PostRow(UnitA.id, "text-a", PS_PUBLISHED) EXCEPT !.published_at = Aware(1)]
    ELSE PostRow(UnitA.id, "text-a", OtherStatus(p))

InitRepublish ==
    /\ news = {UnitA}
    /\ ing = [r \in IngestSlots |-> IdleRun]
    /\ clock = 10
    /\ \E generated \in SUBSET (1..StuckRows) :
          posts = [p \in 1..StuckRows |-> StuckRow(p, generated)]
    /\ sent = [p \in 1..StuckRows |-> 0]
    /\ queue = EmptyBag
    /\ runs = EmptyBag
    /\ last = <<>>
    /\ gen = <<>>
    /\ stagger = <<>>
    /\ flt = <<>>
    /\ del = NoDelete
    /\ AuthAtRest
    /\ budget = MaxTriggers
    /\ sources = AllEnabled

NextRepublish == RepublishStuck

SpecRepublish == InitRepublish /\ [][NextRepublish]_vars

-----------------------------------------------------------------------------
(* Sources: the fan-out of parse_all_sources, the source check of the parse
   tasks, PUT and DELETE /sources/{source_id} *)

\* parse_site_source.delay(source.id) or parse_telegram_source.delay(source.id)
ParseTask(src) ==
    [name |-> IF src.type = SITE THEN "parse_site_source"
              ELSE "parse_telegram_source",
     arg |-> src.id]

ParseTasks == {ParseTask(SourceRow(sid, type, TRUE)) :
                  sid \in SourceIds, type \in {SITE, TELEGRAM}}

\* select(Source).filter(Source.enabled.is_(True))
EnabledSources == {src \in sources : src.enabled}

RECURSIVE DelayEach(_, _)
DelayEach(q, srcs) ==
    IF srcs = {} THEN q
    ELSE LET src == CHOOSE x \in srcs : TRUE
         IN  DelayEach(Delay(q, ParseTask(src)), srcs \ {src})

\* A beat tick of parse_all_sources: one task for each enabled source
ParseAllSources ==
    /\ budget > 0
    /\ budget' = budget - 1
    /\ queue' = DelayEach(queue, EnabledSources)
    /\ last' = <<>>
    /\ gen' = <<>>
    /\ stagger' = <<>>
    /\ UNCHANGED <<auxVars, ingVars, posts, runs, sent>>

\* the task returned at its check of the source
SkippedRun(sid) == [IdleRun EXCEPT !.st = "skipped", !.source_id = sid]

\* the source is stored and enabled
SourceEnabled(sid) == \E src \in sources : src.id = sid /\ src.enabled

\* (mutant) the task does not look at the source
ParseStartUnchecked(r, task) ==
    /\ BagIn(task, queue)
    /\ ing[r].st = "idle"
    /\ \A q \in IngestSlots : q < r => ing[q].st # "idle"
    /\ queue' = queue (-) SetToBag({task})
    /\ ing' = [ing EXCEPT ![r] =
                 [IdleRun EXCEPT !.st = "loop", !.source_id = task.arg,
                                 !.pre = StoredIds(news),
                                 !.after = {q \in IngestSlots : Finished(ing[q])}]]
    /\ last' = <<>>
    /\ gen' = <<>>
    /\ stagger' = <<>>
    /\ UNCHANGED <<auxVars, news, clock, posts, runs, sent, budget>>

\* A parse task is delivered: the source is read, and the task returns when
\* it is missing or disabled; otherwise the fetch and _save_news_items follow.
ParseStart(r, task) ==
    /\ BagIn(task, queue)
    /\ ing[r].st = "idle"
    /\ \A q \in IngestSlots : q < r => ing[q].st # "idle"
    /\ queue' = queue (-) SetToBag({task})
    /\ ing' = [ing EXCEPT ![r] =
                 IF SourceEnabled(task.arg)
                 THEN [IdleRun EXCEPT !.st = "loop", !.source_id = task.arg,
                                      !.pre = StoredIds(news),
                                      !.after = {q \in IngestSlots : Finished(ing[q])}]
                 ELSE SkippedRun(task.arg)]
    /\ last' = <<>>
    /\ gen' = <<>>
    /\ stagger' = <<>>
    /\ UNCHANGED <<auxVars, news, clock, posts, runs, sent, budget>>

\* (mutant) the error of one source revokes the parse tasks still queued
FetchFailsRevoking(r) ==
    /\ ing[r].st = "loop"
    /\ ing[r].batch = <<>>
    /\ ing' = [ing EXCEPT ![r].st = "failed"]
    /\ queue' = EmptyBag
    /\ last' = <<>>
    /\ gen' = <<>>
    /\ stagger' = <<>>
    /\ UNCHANGED <<auxVars, news, clock, posts, runs, sent, budget>>

\* The parser cannot be built (ValueError) or parser.parse() raises: the
\* except clauses of the task log the error and the task ends, nothing saved.
FetchFails(r) ==
    /\ ing[r].st = "loop"
    /\ ing[r].batch = <<>>
    /\ ing' = [ing EXCEPT ![r].st = "failed"]
    /\ last' = <<>>
    /\ gen' = <<>>
    /\ stagger' = <<>>
    /\ UNCHANGED <<auxVars, news, clock, posts, queue, runs, sent, budget>>

\* PUT /sources/{source_id} with enabled: the row is updated, or a 404
UpdateSource(sid, enabled) ==
    /\ budget > 0
    /\ budget' = budget - 1
    /\ sources' = {IF src.id = sid THEN [src EXCEPT !.enabled = enabled] ELSE src :
                      src \in sources}
    /\ UNCHANGED <<flt, del, authVars, ingVars, posts, queue, runs, sent, last, gen, stagger>>

\* DELETE /sources/{source_id}: the source is read, or a 404
DeleteSourceStart(sid) ==
    /\ budget > 0
    /\ del.pc = "idle"
    /\ budget' = budget - 1
    /\ del' = IF sid \in StoredSources
              THEN [NoDelete EXCEPT !.pc = "posts", !.source_id = sid]
              ELSE del
    /\ UNCHANGED <<sources, flt, authVars, ingVars, posts, queue, runs, sent, last, gen, stagger>>

\* select(NewsItem.id).where(NewsItem.source_id == source_id)
NewsOfSource(sid) == {n.id : n \in {m \in news : m.source_id = sid}}

\* delete(Post).where(Post.news_id.in_(subq))
DeleteSourcePosts ==
    /\ del.pc = "posts"
    /\ del' = [del EXCEPT !.pc = "news",
                          !.posts = {p \in PostIds :
                                       posts[p].news_id \in NewsOfSource(del.source_id)}]
    /\ UNCHANGED <<sources, flt, authVars, ingVars, pipeVars>>

\* posts that name a news item and that the transaction did not delete
PostsLeftOf(nids) ==
    {p \in PostIds : posts[p].news_id \in nids /\ p \notin del.posts}

\* delete(NewsItem).where(NewsItem.source_id == source_id): a post committed
\* since the first DELETE makes it raise (ForeignKey("news_items.id")), and
\* get_db rolls the transaction back
DeleteSourceNews ==
    LET nids == NewsOfSource(del.source_id)
    IN  /\ del.pc = "news"
        /\ del' = IF PostsLeftOf(nids) = {}
                  THEN [del EXCEPT !.pc = "load", !.news = nids]
                  ELSE [NoDelete EXCEPT !.pc = "ended"]
        /\ UNCHANGED <<sources, flt, authVars, ingVars, pipeVars>>

\* db.delete(db_source), flush: the relationship Source.news_items has no
\* delete cascade, so its rows are loaded to have source_id set to NULL
DeleteSourceLoad ==
    /\ del.pc = "load"
    /\ del' = [del EXCEPT !.pc = "flush",
                          !.loaded = NewsOfSource(del.source_id) \ del.news]
    /\ UNCHANGED <<sources, flt, authVars, ingVars, pipeVars>>

\* the rows of table news_items after the commit
NewsAfterDelete ==
    {IF n.id \in del.loaded THEN [n EXCEPT !.source_id = NoSource] ELSE n :
        n \in {m \in news : m.id \notin del.news}}

\* the rows of table posts after the commit
PostsAfterDelete ==
    [p \in PostIds |-> IF p \in del.posts THEN NoPost ELSE posts[p]]

\* UPDATE news_items SET source_id=NULL for the loaded rows, DELETE of the
\* source, and the commit of get_db.  A news item of the source committed
\* since the load makes the DELETE raise (ForeignKey("sources.id")) and the
\* transaction is rolled back.
DeleteSourceCommit ==
    /\ del.pc = "flush"
    /\ \/ /\ NewsOfSource(del.source_id) \subseteq del.news \cup del.loaded
          /\ news' = NewsAfterDelete
          /\ posts' = PostsAfterDelete
          /\ sources' = {src \in sources : src.id # del.source_id}
       \/ /\ ~(NewsOfSource(del.source_id) \subseteq del.news \cup del.loaded)
          /\ UNCHANGED <<news, posts, sources>>
    /\ del' = [NoDelete EXCEPT !.pc = "ended"]
    /\ UNCHANGED <<flt, authVars, ing, clock, queue, runs, sent, budget, last, gen, stagger>>

\* the raw items of the fetches beside the deletes: a stored one and a new one
SourceItems ==
    { RawItem("T1", "http://x/1", "s1", Missing, Aware(1)),
      RawItem("T1", None, "s1", Missing, Naive(2)) }

\* the source tables at the start: both enabled, or the channel disabled
SourceTables ==
    { AllEnabled, {SourceRow(1, SITE, TRUE), SourceRow(2, TELEGRAM, FALSE)} }

InitSources ==
    /\ news = {UnitA}
    /\ ing = [r \in IngestSlots |-> IdleRun]
    /\ clock = 10
    /\ PipeAtRest
    /\ AuthAtRest
    /\ budget = MaxTriggers
    /\ sources \in SourceTables

NextSources ==
    \/ ParseAllSources
    \/ \E r \in IngestSlots, task \in ParseTasks : ParseStart(r, task)
    \/ \E r \in IngestSlots, item \in SourceItems : IngestItem(r, item)
    \/ \E r \in IngestSlots : IngestCommit(r)
    \/ \E sid \in SourceIds, enabled \in BOOLEAN : UpdateSource(sid, enabled)
    \/ \E sid \in SourceIds : DeleteSourceStart(sid)
    \/ DeleteSourcePosts
    \/ DeleteSourceNews
    \/ DeleteSourceLoad
    \/ DeleteSourceCommit
    \/ \E nid \in StoredIds(news) : GenerateNowStart(nid)
    \/ \E e \in Running, answer \in ProviderAnswers : ProviderCall(e, answer)
    \/ \E e \in Running : GenerateSelect(e)
    \/ \E e \in Running : GenerateCommit(e)

SpecSources == InitSources /\ [][NextSources]_vars

-----------------------------------------------------------------------------
(* The beat of parse_all_sources and the parse tasks it enqueues, whose fetch
   may fail *)

InitFanOut ==
    /\ news = {}
    /\ ing = [r \in IngestSlots |-> IdleRun]
    /\ clock = 10
    /\ PipeAtRest
    /\ AuthAtRest
    /\ budget = MaxTriggers
    /\ sources = AllEnabled

NextFanOut ==
    \/ ParseAllSources
    \/ \E r \in IngestSlots, task \in ParseTasks : ParseStart(r, task)
    \/ \E r \in IngestSlots : FetchFails(r)
    \/ \E r \in IngestSlots, item \in SourceItems : IngestItem(r, item)
    \/ \E r \in IngestSlots : IngestCommit(r)

SpecFanOut == InitFanOut /\ [][NextFanOut]_vars

-----------------------------------------------------------------------------
(* Ingestion Recorder: properties *)

\* an item that reaches db.add and that the table accepts
Recordable(item) ==
    /\ ~KeyRaises(item)
    /\ ~ConstructRaises(item)
    /\ NotNullOk(NewsRow(item, 1, 0))

\* no other run was under way at any moment of run r
Alone(r) ==
    \A q \in IngestSlots \ {r} :
        \/ ing[q].st = "idle"
        \/ q \in ing[r].after
        \/ r \in ing[q].after

UnitsWithId(id) == {n \in news : n.id = id}

\* run r2 began after run r1 ended, neither overlapped another run, each was
\* given one recordable item, the two items have the same url (or the same
\* title and no url), and the id was not stored before r1
SameItemTwice(r1, r2) ==
    /\ r1 # r2
    /\ Finished(ing[r1]) /\ Finished(ing[r2])
    /\ r1 \in ing[r2].after
    /\ Alone(r1) /\ Alone(r2)
    /\ Len(ing[r1].batch) = 1 /\ Len(ing[r2].batch) = 1
    /\ Recordable(ing[r1].batch[1]) /\ Recordable(ing[r2].batch[1])
    /\ CanonicalKey(ing[r1].batch[1]) = CanonicalKey(ing[r2].batch[1])
    /\ CanonicalId(ing[r1].batch[1]) \notin ing[r1].pre

\* C7: ingesting the same raw item in two successive runs stores exactly one
\* unit, whose id is the hash of the url (or of the title): the first run
\* returns 1 and the second returns 0.
C7_IdempotentIngestion ==
    \A r1, r2 \in IngestSlots :
        SameItemTwice(r1, r2) =>
            /\ ing[r1].ret = <<1>>
            /\ ing[r2].ret = <<0>>
            /\ Cardinality(UnitsWithId(Md5(CanonicalKey(ing[r2].batch[1])))) = 1

C7_Witness ==
    \E r1, r2 \in IngestSlots :
        /\ SameItemTwice(r1, r2)
        /\ ing[r1].batch[1] # ing[r2].batch[1]
        /\ ing[r2].st = "done"

\* every item of the batch is recordable and no two of them share an id
CleanBatch(b) ==
    /\ \A i \in 1..Len(b) : Recordable(b[i])
    /\ \A i, j \in 1..Len(b) : CanonicalId(b[i]) = CanonicalId(b[j]) => i = j

AllIngestEnded == \A r \in IngestSlots : ing[r].st # "loop"

UniqueIds == \A n, m \in news : n.id = m.id => n = m

\* C8: under any interleaving of ingest runs over overlapping items no two
\* stored units share an id, and once the runs have ended every item they
\* were given (all new before the runs) is stored.
C8_NoItemLostByConcurrentRuns ==
    /\ UniqueIds
    /\ AllIngestEnded =>
          \A r \in IngestSlots :
              CleanBatch(ing[r].batch) =>
                  \A i \in 1..Len(ing[r].batch) :
                      CanonicalId(ing[r].batch[i]) \in StoredIds(news)

\* the recordable items of the batch have ids of their own
DistinctIds(b) ==
    \A i, j \in 1..Len(b) :
        (~KeyRaises(b[i]) /\ ~KeyRaises(b[j]) /\ CanonicalId(b[i]) = CanonicalId(b[j]))
            => i = j

NewRecordable(run) ==
    {i \in 1..Len(run.batch) :
        Recordable(run.batch[i]) /\ CanonicalId(run.batch[i]) \notin run.pre}

\* C9: in a batch recorded on its own, an item that cannot be recorded is
\* skipped and every other item whose id is not yet stored is inserted and
\* counted.
C9_BadItemDoesNotLoseBatch ==
    \A r \in IngestSlots :
        (Finished(ing[r]) /\ Alone(r) /\ DistinctIds(ing[r].batch)) =>
            /\ \A i \in NewRecordable(ing[r]) :
                   CanonicalId(ing[r].batch[i]) \in StoredIds(news)
            /\ NewRecordable(ing[r]) # {} =>
                   ing[r].ret = <<Cardinality(NewRecordable(ing[r]))>>

\* C10: a stored unit keeps its title, url, summary, raw text, source and
\* published_at whatever a later fetch of the same id carries.
C10_FirstSeenFieldsWin == [][\A n \in news : n \in news']_vars

\* a run ended after going through an item whose id was stored with another
\* title, summary and source
C10_Witness ==
    \E r \in IngestSlots :
        /\ ing[r].st = "done"
        /\ \E i \in 1..Len(ing[r].batch) :
              LET item == ing[r].batch[i]
              IN  /\ Recordable(item)
                  /\ CanonicalId(item) \in ing[r].pre
                  /\ \E n \in news :
                        /\ n.id = CanonicalId(item)
                        /\ n.title # item.title
                        /\ n.summary # item.summary
                        /\ n.source # SourceName(ing[r].source_id)

-----------------------------------------------------------------------------
(* Pipeline: properties *)

AllPostsOf(nid) == PostsOf(nid, PostStatuses)

Terminal == {PS_PUBLISHED, PS_FAILED}

\* no task is queued and no execution is under way
Quiescent == queue = EmptyBag /\ runs = EmptyBag

\* the step ends a publish attempt on post p
EndsAttempt(p) == last' # <<>> /\ last'[1].post = p

\* C1: in every reachable state each content unit has at most one post whose
\* status is NEW or GENERATED.
C1_SingleActiveArtifact ==
    \A n \in news : Cardinality(PostsOf(n.id, {PS_NEW, PS_GENERATED})) <= 1

\* C2: once two sweeps over an eligible unit without a post have run, the
\* second starting at any point after the first, and every task they
\* enqueued has ended, the unit has one post row and no more.
C2_TwoSweepsOneArtifact ==
    (budget = 0 /\ Quiescent) =>
        \A n \in news :
            ShouldGeneratePost(n, news) => Cardinality(AllPostsOf(n.id)) <= 1

\* C3: no step of a pipeline task changes the status of a post that is
\* PUBLISHED or FAILED, and a publish_post task that read its post as FAILED
\* neither sends it nor marks it PUBLISHED.
C3_TerminalStatusesAreFinal ==
    [][/\ \A p \in PostIds :
              (posts[p].status \in Terminal /\ posts'[p].status # posts[p].status)
                  => (EndsAttempt(p) /\ last'[1].kind = "publish_now")
       /\ (last' # <<>> /\ last'[1].kind = "publish"
               /\ last'[1].loaded.status = PS_FAILED)
              => last'[1].outcome # "published"]_vars

\* the status changes of the lifecycle
Lifecycle ==
    { <<PS_NEW, PS_GENERATED>>, <<PS_GENERATED, PS_PUBLISHED>>,
      <<PS_GENERATED, PS_FAILED>> }

\* C4: every status change a pipeline task or POST /publish makes to a post
\* is NEW->GENERATED, GENERATED->PUBLISHED or GENERATED->FAILED.
C4_MonotonicLifecycle ==
    [][\A p \in PostIds :
          posts'[p].status # posts[p].status
              => <<posts[p].status, posts'[p].status>> \in Lifecycle]_vars

C6_WritesAreCompareAndSet ==
    [][\A p \in PostIds :
          (/\ EndsAttempt(p)
           /\ last'[1].loaded.status = PS_GENERATED
           /\ posts[p].status \in Terminal)
              => (/\ posts'[p].status = posts[p].status
                  /\ posts'[p].published_at = posts[p].published_at)]_vars

-----------------------------------------------------------------------------
(* Filter Engine: properties *)

\* the checks in the order of the specification
CheckOrder ==
    <<ReasonLanguage, ReasonNotAllowed, ReasonExcluded, ReasonKeywords,
      ReasonDuplicate>>

\* the k-th check is enabled and the unit of the call fails it
FailsCheck(c, k) ==
    CASE k = 1 -> c.options.required_language # None
                    /\ c.detected # c.options.required_language
      [] k = 2 -> c.options.required_source_ids # {}
                    /\ c.unit.source_id \notin c.options.required_source_ids
      [] k = 3 -> c.unit.source_id \in c.options.exclude_source_ids
      [] k = 4 -> c.options.check_keywords /\ c.keywords # {}
                    /\ ~MatchesKeywords(c.unit, c.keywords)
      [] k = 5 -> c.options.check_duplicates /\ IsDuplicate(c.unit, news)

FailedChecks(c) == {k \in 1..5 : FailsCheck(c, k)}

\* C11: should_generate_post answers with the reason of the first failing
\* check in the order language, allow-list, deny-list, keywords, duplicates,
\* and with (True, passed) when no enabled check fails.
C11_FirstFailingCheckIsTheReason ==
    flt # <<>> =>
        LET c == flt[1]
            failed == FailedChecks(c)
        IN  IF failed = {}
            THEN c.result = <<TRUE, ReasonPassed>>
            ELSE \E k \in failed :
                    /\ \A j \in failed : k <= j
                    /\ c.result = <<FALSE, CheckOrder[k]>>

\* a unit that fails the language check and the duplicate check was answered
\* with the language reason
C11_Witness ==
    /\ flt # <<>>
    /\ FailsCheck(flt[1], 1)
    /\ FailsCheck(flt[1], 5)
    /\ flt[1].result = <<FALSE, ReasonLanguage>>

-----------------------------------------------------------------------------
(* Publish Controller: properties *)

\* the attempt that ended last made a send and met FloodWaitError each time
EverySendRateLimited(a) ==
    a.outcome = "failed" /\ a.calls >= 1 /\ a.retry_count = a.calls

\* C12: a publish whose every send is answered with FloodWaitError, for a
\* post no send ever delivered, makes at most max_retries sends and stops:
\* the post is FAILED and its published_at is not set.
C12_RateLimitedPublishFails ==
    (last # <<>> /\ EverySendRateLimited(last[1]) /\ sent[last[1].post] = 0) =>
        /\ last[1].calls <= max_retries
        /\ posts[last[1].post].status = PS_FAILED
        /\ posts[last[1].post].published_at = NoTime

\* a publish_post task on a GENERATED post ended after three sends, each of
\* them rate-limited
C12_Witness ==
    /\ last # <<>>
    /\ EverySendRateLimited(last[1])
    /\ last[1].kind = "publish"
    /\ last[1].loaded.status = PS_GENERATED
    /\ last[1].calls = max_retries
    /\ posts[last[1].post].status = PS_FAILED

-----------------------------------------------------------------------------
(* Generation: properties *)

\* the generation was rate-limited and has slept before its retry
AwaitsRetry(e) ==
    e.kind \in {"generate", "generate_now"} /\ e.pc = "provider" /\ e.retry_count >= 1

\* C13: between a rate-limited call of the provider and the retry, the
\* generation waits at least the time the rate limit asked for.
C13_RetryWaitsAsAsked ==
    \A e \in Running : AwaitsRetry(e) => e.slept >= e.asked

\* the step ends a generation after its call of the provider has returned
EndsGeneration == gen' # <<>> /\ gen'[1].outcome # "provider_error"

\* the rows the table held stay as they were, but for the text of row pid
OnlyTextOf(pid) ==
    \A q \in PostIds :
        /\ posts'[q].status = posts[q].status
        /\ posts'[q].published_at = posts[q].published_at
        /\ posts'[q].news_id = posts[q].news_id
        /\ q # pid => posts'[q].generated_text = posts[q].generated_text

\* C14: a generation for a unit that has a GENERATED post replaces the text
\* of that post and adds no row; for a unit without one it adds one GENERATED
\* row holding the text, and changes no other row.
C14_OverwriteInPlace ==
    [][EndsGeneration =>
          LET g == gen'[1]
              had == PostsOf(g.news_id, {PS_GENERATED})
          IN  IF had # {}
              THEN /\ g.outcome = "updated"
                   /\ g.post \in had
                   /\ Len(posts') = Len(posts)
                   /\ posts'[g.post].generated_text = g.text
                   /\ OnlyTextOf(g.post)
              ELSE /\ g.outcome = "created"
                   /\ Len(posts') = Len(posts) + 1
                   /\ posts'[g.post] = PostRow(g.news_id, g.text, PS_GENERATED)
                   /\ OnlyTextOf(g.post)]_vars

-----------------------------------------------------------------------------
(* Generation Dispatcher: properties *)

\* the step enqueues generate_post_for_news(nid)
EnqueuesGeneration(nid) ==
    CopiesIn(GenerateTask(nid), queue') > CopiesIn(GenerateTask(nid), queue)

\* a sweep is at its dispatch for nid
Dispatching(e, nid) ==
    e.kind = "sweep" /\ e.pc = "generating" /\ Head(e.items) = nid

\* C15: a sweep that begins when a unit has a FAILED post does not enqueue
\* generation for that unit.
C15_NoReentryAfterFailed ==
    [][\A nid \in StoredIds(news) :
          EnqueuesGeneration(nid) =>
              \E e \in Running : Dispatching(e, nid) /\ nid \notin e.began_failed]_vars

-----------------------------------------------------------------------------
(* Sources: properties *)

\* the step commits the delete of source sid
DeleteCommits(sid) ==
    sid \in StoredSources /\ sid \notin {src.id : src \in sources'}

\* every news item names a stored source or none, every post a stored news item
ReferencesHold ==
    /\ \A n \in news : n.source_id # NoSource => n.source_id \in StoredSources
    /\ \A p \in PostIds : posts[p] # NoPost => posts[p].news_id \in StoredIds(news)

\* the step removes the news items of source sid and their posts
RemovesUnitsOf(sid) ==
    \A n \in news :
        n.source_id = sid =>
            /\ n.id \notin StoredIds(news')
            /\ \A p \in PostIds : posts[p].news_id = n.id => posts'[p] = NoPost

\* C16: the commit of a source's delete removes every news item of the source
\* and every post of those items, and in every state each news item names a
\* stored source or none and each post names a stored news item, whatever
\* parse or generation tasks are under way.
C16_DeleteCascades ==
    /\ []ReferencesHold
    /\ [][\A sid \in SourceIds : DeleteCommits(sid) => RemovesUnitsOf(sid)]_vars

-----------------------------------------------------------------------------
(* publish_generated_posts: properties *)

\* how many publish_post(pid) tasks the step enqueues
Added(pid) == CopiesIn(PublishTask(pid), queue') - CopiesIn(PublishTask(pid), queue)

\* the posts the step enqueues a publication for
Batch == {pid \in PostIds : Added(pid) > 0}

GeneratedPosts == {p \in PostIds : posts[p].status = PS_GENERATED}

\* the step enqueues publications and is no execution's: a run of
\* publish_generated_posts
RepublishRuns == runs' = runs /\ Batch # {}

\* C17: a run of publish_generated_posts enqueues publish_post once for each
\* post of its batch; the batch holds only posts whose status is GENERATED at
\* the scan, PUBLISH_BATCH_LIMIT of them at most, and those of lowest id.
C17_RepublishOnlyGenerated ==
    [][RepublishRuns =>
          /\ \A pid \in Batch : posts[pid].status = PS_GENERATED /\ Added(pid) = 1
          /\ Cardinality(Batch) <= PUBLISH_BATCH_LIMIT
          /\ \A pid \in Batch, q \in GeneratedPosts : q < pid => q \in Batch
          /\ Cardinality(Batch) < PUBLISH_BATCH_LIMIT => Batch = GeneratedPosts]_vars

\* a run has left the GENERATED post of highest id out of a full batch, beside
\* posts of the three other statuses
C17_Witness ==
    /\ Cardinality(GeneratedPosts) > PUBLISH_BATCH_LIMIT
    /\ BagCardinality(queue) = PUBLISH_BATCH_LIMIT
    /\ \A pid \in PostIds : BagIn(PublishTask(pid), queue) =>
          /\ posts[pid].status = PS_GENERATED
          /\ \A q \in GeneratedPosts : q < pid => BagIn(PublishTask(q), queue)

-----------------------------------------------------------------------------
(* parse_all_sources and the parse tasks: properties *)

\* how many more copies of the task the queue holds after the step
ParseAdded(task) == CopiesIn(task, queue') - CopiesIn(task, queue)

\* the step enqueues parse tasks: a run of parse_all_sources
FanOutRuns == \E task \in ParseTasks : ParseAdded(task) > 0

\* the step delivers the parse task
Delivered(task) == ParseAdded(task) < 0

\* no run of _save_news_items begins in the step
NoSaveBegins == \A r \in IngestSlots : ing'[r].st = "loop" => ing[r].st = "loop"

\* C18: a run of parse_all_sources enqueues one parse task, of the source's
\* type, for each enabled source and none for another; a parse task delivered
\* when its source is disabled or missing saves nothing; and no news item is
\* inserted that names a missing source.
C18_FanOutPerEnabledSource ==
    [][/\ FanOutRuns =>
             \A sid \in SourceIds, type \in {SITE, TELEGRAM} :
                 ParseAdded(ParseTask(SourceRow(sid, type, TRUE))) =
                     IF SourceRow(sid, type, TRUE) \in sources THEN 1 ELSE 0
       /\ \A task \in ParseTasks :
             (Delivered(task) /\ ~SourceEnabled(task.arg)) =>
                 news' = news /\ NoSaveBegins
       /\ \A n \in news' :
             n.id \notin StoredIds(news) => n.source_id \in StoredSources]_vars

\* the fan-out passed the disabled source over, and the parse task of the
\* other source, deleted since, has returned at its check with nothing saved
C18_Witness ==
    /\ \E r \in IngestSlots :
          ing[r].st = "skipped" /\ ing[r].source_id \notin StoredSources
    /\ \E src \in sources : ~src.enabled
    /\ queue = EmptyBag
    /\ \A r \in IngestSlots : ing[r].st \in {"idle", "skipped"}

-----------------------------------------------------------------------------
(* process_news_items: properties *)

RECURSIVE Copies(_, _)
Copies(rs, es) ==
    IF es = {} THEN 0
    ELSE LET e == CHOOSE x \in es : TRUE
         IN  CopiesIn(e, rs) + Copies(rs, es \ {e})

\* how many sweeps of rs are at the SELECT of a GENERATED or NEW post of nid
AtDispatch(rs, nid) == Copies(rs, {e \in BagToSet(rs) : Dispatching(e, nid)})

\* a sweep comes to the SELECT of a GENERATED or NEW post of nid in the step
ComesToDispatch(nid) == AtDispatch(runs', nid) > AtDispatch(runs, nid)

\* C19: a sweep goes past its filter call and its SELECT of a PUBLISHED post
\* only when the filter passes the item and no post of it is PUBLISHED, and
\* generation is enqueued only by a sweep that went past them and finds, in the
\* step of the enqueue, no NEW or GENERATED post of the item.
C19_DispatchOnlyAfterChecks ==
    [][/\ \A nid \in StoredIds(news) :
             ComesToDispatch(nid) =>
                 /\ ShouldGeneratePost(Unit(nid), news)
                 /\ PostsOf(nid, {PS_PUBLISHED}) = {}
       /\ \A nid \in StoredIds(news) :
             EnqueuesGeneration(nid) =>
                 /\ \E e \in Running : Dispatching(e, nid)
                 /\ PostsOf(nid, {PS_NEW, PS_GENERATED}) = {}]_vars

\* a sweep has enqueued generation for an item that the filter passes and
\* whose only posts are FAILED
C19_Witness ==
    \E nid \in StoredIds(news) :
        /\ BagIn(GenerateTask(nid), queue)
        /\ AllPostsOf(nid) # {}
        /\ AllPostsOf(nid) = PostsOf(nid, {PS_FAILED})
        /\ ShouldGeneratePost(Unit(nid), news)

\* C20: a sweep does not enqueue generation for an item that another sweep,
\* under way at the same time, has enqueued generation for.
C20_ConcurrentSweepsDispatchOnce ==
    [][\A nid \in StoredIds(news) :
          EnqueuesGeneration(nid) =>
              \E e \in Running : Dispatching(e, nid) /\ nid \notin e.met]_vars

-----------------------------------------------------------------------------
(* generate_post_for_news and POST /generate: further properties *)

\* the generation that ended in the step wrote its text
GenerationSucceeds == EndsGeneration /\ gen'[1].outcome \in {"created", "updated"}

\* C21: a generation that succeeds for an item that has a NEW post moves a
\* NEW post of the item to GENERATED with the generated text, and adds no row.
C21_NewBecomesGenerated ==
    [][GenerationSucceeds =>
          LET g == gen'[1]
              new == PostsOf(g.news_id, {PS_NEW})
          IN  new # {} =>
                 /\ Len(posts') = Len(posts)
                 /\ \E p \in new : /\ posts'[p].status = PS_GENERATED
                                   /\ posts'[p].generated_text = g.text]_vars

-----------------------------------------------------------------------------
(* process_news_items: the delay between its dispatches *)

\* the sweep that dispatched in the step had made k dispatches before
DispatchedAfter(k) ==
    \E e \in Running :
        e.kind = "sweep" /\ e.pc = "generating" /\ e.processed_count = k

\* C22 (as stated): the sweep sleeps base + k*increment before its k-th
\* dispatch, k = 0, 1, 2, ...
C22_StaggerFromBase ==
    [][stagger' # <<>> =>
          LET d == stagger'[1]
          IN  /\ DispatchedAfter(d.k)
              /\ d.delay = GENERATE_DELAY_BASE_SECONDS
                             + d.k * GENERATE_DELAY_INCREMENT_SECONDS]_vars

\* C22 (amended): the sweep does not sleep before its first dispatch (k = 0)
\* and sleeps base + k*increment before its k-th dispatch for k >= 1, so the
\* delays are strictly increasing in k.
C22_StaggerAfterFirst ==
    [][stagger' # <<>> =>
          LET d == stagger'[1]
          IN  /\ DispatchedAfter(d.k)
              /\ d.k = 0 => d.delay = 0
              /\ d.k >= 1 => d.delay = GENERATE_DELAY_BASE_SECONDS
                                         + d.k * GENERATE_DELAY_INCREMENT_SECONDS
              /\ \A j \in 0..(d.k - 1) : StaggerDelay(j) < d.delay]_vars

\* a sweep has made its third dispatch, after a sleep of 14 s
C22_Witness ==
    /\ stagger = <<[k |-> 2, delay |-> 14]>>
    /\ \A n \in news : BagIn(GenerateTask(n.id), queue)

-----------------------------------------------------------------------------
(* The cool-down between the generation commit and the publication *)

\* attempt e calls the channel in the step
Sends(e) ==
    /\ e.kind \in {"publish", "publish_now"} /\ e.pc = "send"
    /\ \E f \in BagToSet(runs') :
          /\ f.kind = e.kind /\ f.post = e.post /\ f.calls = e.calls + 1
          /\ CopiesIn(f, runs') > CopiesIn(f, runs)

\* a generation task has committed the text of post pid and is in its
\* time.sleep(PUBLISH_DELAY_AFTER_GENERATION_SECONDS)
CoolingDown(pid) ==
    \E g \in Running : g.kind = "generate" /\ g.pc = "enqueue" /\ g.post = pid

\* C23: no publish_post task calls the channel for a post while the generation
\* task that committed its latest text is still in its cool-down.
C23_NoSendDuringCoolDown ==
    [][\A e \in Running : (e.kind = "publish" /\ Sends(e)) => ~CoolingDown(e.post)]_vars

-----------------------------------------------------------------------------
(* Provider errors *)

\* the generation that ended in the step ended in an AIProviderError
ProviderErrorEnds == gen' # <<>> /\ gen'[1].outcome = "provider_error"

\* how many sweeps of rs are at the filter call and the SELECT of a PUBLISHED
\* post of nid
AtCheck(rs, nid) ==
    Copies(rs, {e \in BagToSet(rs) :
                   e.kind = "sweep" /\ e.pc = "published" /\ Head(e.items) = nid})

\* the filter passes the unit and it has no post
Unposted(nid) == AllPostsOf(nid) = {} /\ ShouldGeneratePost(Unit(nid), news)

C25_OtherErrorsAreRetried ==
    [][ProviderErrorEnds =>
          \/ gen'[1].retry_count >= 1
          \/ EnqueuesGeneration(gen'[1].news_id)]_vars

\* the generations that come to a call of the provider in the step
NewAtProvider ==
    {f \in BagToSet(runs') :
        /\ f.kind \in {"generate", "generate_now"} /\ f.pc = "provider"
        /\ CopiesIn(f, runs') > CopiesIn(f, runs)}

\* generation e makes a call of the provider in the step
Calls(e) ==
    /\ e.kind \in {"generate", "generate_now"} /\ e.pc = "provider"
    /\ CopiesIn(e, runs') < CopiesIn(e, runs)

\* generation f is generation e after one more retry
RetryOf(f, e) ==
    /\ Calls(e) /\ f.kind = e.kind /\ f.news_id = e.news_id
    /\ f.retry_count = e.retry_count + 1

\* C26: generate_text begins with retry_count 0, each retry adds one to it,
\* it never goes beyond max_retries (3), and a rate-limited call made with
\* retry_count at max_retries, the fourth, raises: at most four calls.
C26_RateLimitRetriesAreBounded ==
    [][/\ \A f \in NewAtProvider :
             \/ f.retry_count = 0
             \/ /\ f.retry_count <= client_max_retries
                /\ \E e \in Running : RetryOf(f, e)
       /\ \A e \in Running :
             (Calls(e) /\ e.retry_count = client_max_retries) =>
                 /\ NewAtProvider = {}
                 /\ ProviderErrorEnds \/ \E f \in BagToSet(runs') : f.pc = "select"]_vars

\* four calls in a row were rate limited, and the fourth raised
C26_Witness ==
    /\ gen # <<>>
    /\ gen[1].outcome = "provider_error"
    /\ gen[1].retry_count = client_max_retries
    /\ gen[1].asked > 0

-----------------------------------------------------------------------------
(* TelegramPublisher.publish_post: the wait after a FloodWaitError *)

\* attempt e has slept after a FloodWaitError and is about to send again
AwaitsResend(e) ==
    e.kind \in {"publish", "publish_now"} /\ e.pc = "send" /\ e.retry_count >= 1

-----------------------------------------------------------------------------
(* TelegramPublisher.publish_post: errors that are no rate limit *)

\* the attempt ended on a send that raised an error other than FloodWaitError:
\* its last call counted no retry
SendErrorEnded(a) == a.outcome = "failed" /\ a.calls = a.retry_count + 1

\* C28: a publication whose send fails with an error that is no rate limit
\* sends no more, and its post is FAILED when it ends.
C28_SendErrorMarksFailed ==
    [][(last' # <<>> /\ SendErrorEnded(last'[1])) =>
          posts'[last'[1].post].status = PS_FAILED]_vars

-----------------------------------------------------------------------------
(* publish_generated_posts as the recovery of posts left GENERATED *)

Stuck(pid) == pid \in PostIds /\ posts[pid].status = PS_GENERATED
Settled(pid) == pid \in PostIds /\ posts[pid].status \in {PS_PUBLISHED, PS_FAILED}

\* C29: with the beat of the republish sweep and the queued tasks executed
\* fairly, every post that is GENERATED is PUBLISHED or FAILED at some later
\* time, also when the worker crashed between the commit of the generation
\* and the enqueueing of the publish task.
C29_GeneratedIsEventuallySettled ==
    \A pid \in 1..MaxPosts : Stuck(pid) ~> Settled(pid)

\* every generation task was lost after its commit, none enqueued a publish
\* task, and every post is settled
C29_Witness ==
    /\ budget = 0
    /\ Len(posts) = Cardinality(news)
    /\ \A pid \in PostIds : Settled(pid)

-----------------------------------------------------------------------------
(* Filter Engine: the keyword check *)

\* the call had keyword matching enabled and came to the keyword check
AtKeywordCheck(c) ==
    c.options.check_keywords /\ \A k \in 1..3 : ~FailsCheck(c, k)

\* the call was not answered with the reason of the keyword check
KeywordCheckPassed(c) == c.result[2] # ReasonKeywords

\* a keyword of the table, in lower case, is found in the title, the summary
\* and the raw text of the unit, joined by spaces and in lower case
SomeKeywordFound(c) ==
    \E kw \in c.keywords :
        IsSubstring(LowerChars(Chars(kw)), TextToSearch(c.unit))

\* C30: with keyword matching enabled the keyword check passes exactly when
\* a known keyword is a substring, ignoring case, of the title, summary and
\* raw text taken together; with no keyword known it does not pass.
C30_PassesOnlyOnAKeyword ==
    (flt # <<>> /\ AtKeywordCheck(flt[1])) =>
        (KeywordCheckPassed(flt[1]) <=> SomeKeywordFound(flt[1]))

\* C30 (amended): with keyword matching enabled the keyword check passes
\* exactly when no keyword is known or a known keyword is a substring,
\* ignoring case, of the title, summary and raw text taken together.
C30_PassesOnAKeywordOrNone ==
    (flt # <<>> /\ AtKeywordCheck(flt[1])) =>
        (KeywordCheckPassed(flt[1]) <=>
            (flt[1].keywords = {} \/ SomeKeywordFound(flt[1])))

\* a call with keyword matching enabled and an empty table passed the
\* keyword check
C30_Witness ==
    /\ flt # <<>>
    /\ AtKeywordCheck(flt[1])
    /\ flt[1].keywords = {}
    /\ KeywordCheckPassed(flt[1])

-----------------------------------------------------------------------------
(* Filter Engine: the duplicate check *)

\* the call had duplicate detection enabled and came to the duplicate check
AtDuplicateCheck(c) ==
    c.options.check_duplicates /\ \A k \in 1..4 : ~FailsCheck(c, k)

\* another stored unit has the url hash of the unit, both having a url, or
\* its title ignoring case
HasTwin(unit) ==
    \E other \in news :
        /\ other.id # unit.id
        /\ \/ Truthy(unit.url) /\ Truthy(other.url) /\ Md5(other.url) = Md5(unit.url)
           \/ Lower(other.title) = Lower(unit.title)

\* C31: with duplicate detection enabled the duplicate check fails exactly
\* when another stored unit, of a different id, has the same url hash or the
\* same title ignoring case; a unit alone with its title and url passes.
C31_DuplicateOnlyOfAnother ==
    (flt # <<>> /\ AtDuplicateCheck(flt[1])) =>
        (flt[1].result = <<FALSE, ReasonDuplicate>> <=> HasTwin(flt[1].unit))

\* a unit without a twin passed the duplicate check, though it is stored
\* itself
C31_Witness ==
    /\ flt # <<>>
    /\ AtDuplicateCheck(flt[1])
    /\ ~HasTwin(flt[1].unit)
    /\ flt[1].unit \in news
    /\ flt[1].result = <<TRUE, ReasonPassed>>

-----------------------------------------------------------------------------
(* publish_post enqueued twice for one post *)

\* C32: when the publish task of the republish sweep and the one the
\* generation task scheduled meet on a post, the text of the post is sent to
\* the channel at most once, and the terminal status the post comes to is
\* changed by no later step.
C32_RacingPublishesSendOnce ==
    /\ [](\A pid \in PostIds : sent[pid] <= 1)
    /\ [][\A pid \in PostIds :
             posts[pid].status \in Terminal
                 => posts'[pid].status = posts[pid].status]_vars

-----------------------------------------------------------------------------
(* parse_site_source and parse_telegram_source: failures *)

\* the run of slot r ends in the step on an error: of the fetch, of the
\* parser, or of the commit
FailsNow(r) == ing[r].st = "loop" /\ ing'[r].st = "failed"

\* the run of slot r stores its batch in the step
SavesNow(r) == ing[r].st = "loop" /\ ing'[r].st = "done"

\* C33: the failure of one source's parse task (fetch error, parser
\* misconfiguration, failed commit) stays in that task: the task ends, the
\* stored items, the queued parse tasks and the runs of the other sources are
\* as before, and a run of another source that commits stores its items.
C33_SourceFailureIsContained ==
    [][\A r \in IngestSlots :
          /\ FailsNow(r) =>
                /\ news' = news
                /\ queue' = queue
                /\ \A q \in IngestSlots \ {r} : ing'[q] = ing[q]
          /\ SavesNow(r) =>
                \A i \in 1..Len(ing[r].pending) : ing[r].pending[i] \in news']_vars

\* the parse task of one source failed at its fetch and the task of the
\* other source, of the same fan-out, has stored an item
C33_Witness ==
    \E r, q \in IngestSlots :
        /\ ing[r].st = "failed" /\ ing[r].batch = <<>>
        /\ ing[q].st = "done" /\ ing[q].source_id # ing[r].source_id
        /\ \E n \in news : n.source_id = ing[q].source_id
        /\ queue = EmptyBag

-----------------------------------------------------------------------------
(* process_news_items: the window *)

\* the stored units published later than the unit nid
LaterThan(nid) ==
    {m \in news : m.published_at.t > Unit(nid).published_at.t}

\* the units a sweep has still to look at come latest first
LatestFirst(e) ==
    \A i, j \in 1..Len(e.items) :
        i < j => Unit(e.items[i]).published_at.t >= Unit(e.items[j]).published_at.t

\* C34: a sweep looks at the NEWS_ITEMS_PROCESS_LIMIT stored units of the
\* latest published_at, latest first, and enqueues generation for no unit
\* that has NEWS_ITEMS_PROCESS_LIMIT or more units published after it.
C34_SweepStaysInItsWindow ==
    /\ [](\A e \in Running :
             e.kind = "sweep" =>
                 Len(e.items) <= NEWS_ITEMS_PROCESS_LIMIT /\ LatestFirst(e))
    /\ [][\A nid \in StoredIds(news) :
             EnqueuesGeneration(nid) =>
                 Cardinality(LaterThan(nid)) < NEWS_ITEMS_PROCESS_LIMIT]_vars

\* the sweep has ended with NEWS_ITEMS_PROCESS_LIMIT units enqueued, and a
\* unit that passes the filter and has no post was left out
C34_Witness ==
    /\ runs = EmptyBag
    /\ budget = 0
    /\ BagCardinality(queue) = NEWS_ITEMS_PROCESS_LIMIT
    /\ \E n \in news :
          /\ ~BagIn(GenerateTask(n.id), queue)
          /\ ShouldGeneratePost(n, news)
          /\ PostsOf(n.id, PostStatuses) = {}
          /\ Cardinality(LaterThan(n.id)) >= NEWS_ITEMS_PROCESS_LIMIT

-----------------------------------------------------------------------------
(* _save_news_items: a batch that holds an item twice *)

\* two items of the batch have the same canonical id
HasRepeat(b) ==
    \E i, j \in 1..Len(b) : i < j /\ CanonicalId(b[i]) = CanonicalId(b[j])

\* the ids of the items of the run that were not stored when it began
NewIds(run) == {CanonicalId(run.batch[i]) : i \in NewRecordable(run)}

\* C35: a batch recorded on its own, of recordable items, that holds a new
\* item twice stores one unit for it and every other new item of the batch,
\* and returns the number of units stored: the second occurrence counts for
\* nothing.
C35_RepeatedItemStoredOnce ==
    \A r \in IngestSlots :
        (/\ Finished(ing[r]) /\ Alone(r)
         /\ \A i \in 1..Len(ing[r].batch) : Recordable(ing[r].batch[i])
         /\ HasRepeat(ing[r].batch)
         /\ NewIds(ing[r]) # {}) =>
            /\ NewIds(ing[r]) \subseteq StoredIds(news)
            /\ ing[r].ret = <<Cardinality(NewIds(ing[r]))>>

-----------------------------------------------------------------------------
(* The pipeline: posts of one unit *)

\* C36: with the sweeps and the tasks alone at work, no unit ever has two
\* posts that are PUBLISHED.
C36_OnePublishedPostPerUnit ==
    \A nid \in StoredIds(news) : Cardinality(PostsOf(nid, {PS_PUBLISHED})) <= 1

\* C37: a post that pipeline tasks alone have written has its published_at
\* set exactly when it is PUBLISHED; none is FAILED with a published_at.
C37_PublishedAtOnlyWhenPublished ==
    \A pid \in PostIds :
        posts[pid].published_at # NoTime <=> posts[pid].status = PS_PUBLISHED

-----------------------------------------------------------------------------
(* process_news_items: units that are duplicates of each other *)

\* another stored unit has the title of the unit nid, ignoring case
SharesTitle(nid) ==
    \E other \in news : other.id # nid /\ Lower(other.title) = Lower(Unit(nid).title)

\* C38: two stored units whose titles are equal ignoring case are each the
\* duplicate of the other: while both are stored, a sweep enqueues the
\* generation of neither.
C38_TwinsAreNeverEnqueued ==
    [][\A nid \in StoredIds(news) :
          EnqueuesGeneration(nid) => ~SharesTitle(nid)]_vars

\* every sweep has gone through the two units that share a title and has
\* enqueued nothing
C38_Witness ==
    /\ \E nid \in StoredIds(news) : SharesTitle(nid)
    /\ budget = 0
    /\ runs = EmptyBag
    /\ queue = EmptyBag
    /\ posts = <<>>

-----------------------------------------------------------------------------
(* The pipeline and NEW posts *)

\* the unit nid has a NEW post
HasNewPost(nid) == PostsOf(nid, {PS_NEW}) # {}

\* a post of the unit nid becomes PUBLISHED in the step
PublishesUnit(nid) ==
    \E pid \in PostIds :
        /\ posts[pid].news_id = nid
        /\ posts[pid].status # PS_PUBLISHED
        /\ posts'[pid].status = PS_PUBLISHED

\* C39: no pipeline task changes a NEW post, no sweep enqueues the generation
\* of a unit that has one, and no post of such a unit is published: without
\* a manual action the post stays NEW and the unit unpublished.
C39_NewPostBlocksItsUnit ==
    [][\A nid \in StoredIds(news) :
          HasNewPost(nid) =>
              /\ \A pid \in PostsOf(nid, {PS_NEW}) : posts'[pid] = posts[pid]
              /\ ~EnqueuesGeneration(nid)
              /\ ~PublishesUnit(nid)]_vars

-----------------------------------------------------------------------------
(* The authorization handshake: authorize_telegram, one step per await *)

\* what the handshake leaves alone
restVars == <<ingVars, pipeVars, sources, flt, del>>

\* the dict returned, with the message it carries
Outcome(success, message, next_step) ==
    [success |-> success, message |-> message, next_step |-> next_step]

\* the call in the slot c returns (finally: client.disconnect())
Returns(c, outcome) ==
    auth_calls' = [auth_calls EXCEPT ![c].pc = "done", ![c].ret = <<outcome>>]

\* except Exception: the entry of the phone is popped and the call fails
Raises(c) ==
    /\ auth_sessions' = Pop(auth_sessions, auth_calls[c].phone)
    /\ Returns(c, Outcome(FALSE, "error", None))

\* authorize_telegram(phone, code) is called: without credentials it returns
\* at once, otherwise it strips the phone and awaits client.connect()
AuthCall(c, phone, code) ==
    /\ auth_calls[c].pc \in {"idle", "done"}
    /\ auth_calls' =
          [auth_calls EXCEPT ![c] =
              IF configured
              THEN [IdleCall EXCEPT !.pc = "connect", !.phone = Strip(phone),
                                    !.code = code]
              ELSE [IdleCall EXCEPT !.pc = "done", !.phone = phone, !.code = code,
                                    !.ret = <<Outcome(FALSE, "not configured", None)>>]]
    /\ UNCHANGED <<configured, auth_sessions, authorized, signins>>
    /\ UNCHANGED restVars

\* await client.connect() returns or raises
AuthConnect(c, ok) ==
    /\ auth_calls[c].pc = "connect"
    /\ IF ok
       THEN /\ auth_calls' = [auth_calls EXCEPT ![c].pc = "is_user_authorized"]
            /\ UNCHANGED auth_sessions
       ELSE Raises(c)
    /\ UNCHANGED <<configured, authorized, signins>>
    /\ UNCHANGED restVars

\* await client.is_user_authorized() returns or raises; an authorized client
\* goes on to get_me(), a call without a code to send_code_request(), a call
\* with a code and no entry returns next_step 'phone', and a call with a code
\* and an entry calls sign_in() with the hash of the entry
AuthIsUserAuthorized(c, ok) ==
    LET call == auth_calls[c]
        h == HashOf(auth_sessions, call.phone)
    IN  /\ call.pc = "is_user_authorized"
        /\ IF ~ok
           THEN Raises(c) /\ UNCHANGED signins
           ELSE IF authorized
           THEN /\ auth_calls' = [auth_calls EXCEPT ![c].pc = "get_me"]
                /\ UNCHANGED <<auth_sessions, signins>>
           ELSE IF ~Truthy(call.code)
           THEN /\ auth_calls' = [auth_calls EXCEPT ![c].pc = "send_code_request"]
                /\ UNCHANGED <<auth_sessions, signins>>
           ELSE IF h = NoHash
           THEN /\ Returns(c, Outcome(FALSE, "send the code request first", "phone"))
                /\ UNCHANGED <<auth_sessions, signins>>
           ELSE /\ auth_calls' = [auth_calls EXCEPT ![c].pc = "sign_in", ![c].hash = h]
                /\ signins' = [signins EXCEPT ![h] = @ + 1]
                /\ UNCHANGED auth_sessions
        /\ UNCHANGED <<configured, authorized>>
        /\ UNCHANGED restVars

\* await client.send_code_request(phone) returns a new phone_code_hash, which
\* is stored under the phone, or raises
AuthSendCodeRequest(c, ok) ==
    /\ auth_calls[c].pc = "send_code_request"
    /\ IF ok
       THEN /\ Len(signins) < MaxCodes
            /\ signins' = Append(signins, 0)
            /\ auth_sessions' = Put(auth_sessions, auth_calls[c].phone, Len(signins) + 1)
            /\ Returns(c, Outcome(TRUE, "code sent", "code"))
       ELSE Raises(c) /\ UNCHANGED signins
    /\ UNCHANGED <<configured, authorized>>
    /\ UNCHANGED restVars

\* await client.sign_in(phone, code, phone_code_hash=...) returns, the entry is
\* popped and get_me() is awaited, or raises
AuthSignIn(c, ok) ==
    /\ auth_calls[c].pc = "sign_in"
    /\ IF ok
       THEN /\ authorized' = TRUE
            /\ auth_sessions' = Pop(auth_sessions, auth_calls[c].phone)
            /\ auth_calls' = [auth_calls EXCEPT ![c].pc = "get_me"]
       ELSE Raises(c) /\ UNCHANGED authorized
    /\ UNCHANGED <<configured, signins>>
    /\ UNCHANGED restVars

\* await client.get_me() returns, and the call succeeds, or raises
AuthGetMe(c, ok) ==
    /\ auth_calls[c].pc = "get_me"
    /\ IF ok
       THEN /\ Returns(c, Outcome(TRUE, "authorized", None))
            /\ UNCHANGED auth_sessions
       ELSE Raises(c)
    /\ UNCHANGED <<configured, authorized, signins>>
    /\ UNCHANGED restVars

InitAuth ==
    /\ news = {}
    /\ ing = [r \in IngestSlots |-> IdleRun]
    /\ clock = 10
    /\ PipeAtRest
    /\ budget = 0
    /\ sources = AllEnabled
    /\ configured \in BOOLEAN
    /\ authorized \in BOOLEAN
    /\ auth_sessions = <<>>
    /\ auth_calls = [c \in CallSlots |-> IdleCall]
    /\ signins = <<>>

NextAuth ==
    \/ \E c \in CallSlots, phone \in Phones, code \in Codes : AuthCall(c, phone, code)
    \/ \E c \in CallSlots, ok \in BOOLEAN : AuthConnect(c, ok)
    \/ \E c \in CallSlots, ok \in BOOLEAN : AuthIsUserAuthorized(c, ok)
    \/ \E c \in CallSlots, ok \in BOOLEAN : AuthSendCodeRequest(c, ok)
    \/ \E c \in CallSlots, ok \in BOOLEAN : AuthSignIn(c, ok)
    \/ \E c \in CallSlots, ok \in BOOLEAN : AuthGetMe(c, ok)

SpecAuth == InitAuth /\ [][NextAuth]_vars

\* the call in the slot c calls sign_in in the step
AttemptsSignIn(c) ==
    auth_calls[c].pc # "sign_in" /\ auth_calls'[c].pc = "sign_in"

\* the call in the slot c, given a code, finds the client not authorized and
\* no entry for its phone, and is_user_authorized() returns in the step
FindsNoEntry(c) ==
    /\ auth_calls[c].pc = "is_user_authorized"
    /\ auth_calls'[c].pc # "is_user_authorized"
    /\ ~authorized
    /\ Truthy(auth_calls[c].code)
    /\ HashOf(auth_sessions, auth_calls[c].phone) = NoHash
    /\ ~(auth_calls'[c].pc = "done" /\ auth_calls'[c].ret[1].message = "error")

\* the sign_in of the call in the slot c succeeds, or the call ends with an
\* error, in the step
SignedInOrRaised(c) ==
    \/ auth_calls[c].pc = "sign_in" /\ auth_calls'[c].pc = "get_me"
    \/ /\ auth_calls[c].pc # "done"
       /\ auth_calls'[c].pc = "done"
       /\ auth_calls'[c].ret[1].message = "error"

\* sign_in is called only with the hash of an entry the dict holds
SignInNeedsEntry ==
    \A c \in CallSlots :
        AttemptsSignIn(c) =>
            /\ HashOf(auth_sessions, auth_calls[c].phone) # NoHash
            /\ auth_calls'[c].hash = HashOf(auth_sessions, auth_calls[c].phone)

\* without an entry the call fails with next_step 'phone' and the dict is
\* left as it was
NoEntryFails ==
    \A c \in CallSlots :
        FindsNoEntry(c) =>
            /\ auth_calls'[c].pc = "done"
            /\ auth_calls'[c].ret[1].success = FALSE
            /\ auth_calls'[c].ret[1].next_step = "phone"
            /\ auth_sessions' = auth_sessions

\* the entry of the phone is gone after a sign_in that succeeded and after
\* an error
EntryRemoved ==
    \A c \in CallSlots :
        SignedInOrRaised(c) => auth_calls[c].phone \notin DOMAIN auth_sessions'

\* no code request had two sign_in calls made with its hash
SignedInOnce == \A h \in 1..Len(signins) : signins[h] <= 1

\* C40: while the client is not authorized, sign_in is called only when the
\* dict holds an entry for the phone (otherwise the call fails with next_step
\* 'phone' and the dict is unchanged); every code request is used by at most
\* one sign_in call; the entry is removed after a successful sign_in and after
\* any error.
C40_CodeRequestUsedOnce ==
    /\ []SignedInOnce
    /\ [][SignInNeedsEntry /\ NoEntryFails /\ EntryRemoved]_vars

====
